---- MODULE Spec2Model ----
(***************************************************************************)
(* hyper3d-envmapgen: the TypeScript front end of the LTASG blur.          *)
(*                                                                         *)
(*   LtasgBlur (ts/ltasgblur.ts)   plan builder and pipeline driver        *)
(*   CoreInstance.ltasg (ts/wasm.ts) pass orchestrator over the wasm core  *)
(*   image coercion and resampling (ts/image.ts)                           *)
(*                                                                         *)
(* Numbers.  JavaScript numbers are modelled in exact rational arithmetic  *)
(* carried by integers:                                                    *)
(*   - a sigma is an integer count of 1/SigmaDen;                          *)
(*   - a float sample or kernel weight is an integer count of 1/Q;         *)
(*   - NaN is the value NaN below; every other sample is >= 0.             *)
(***************************************************************************)
EXTENDS Integers, Sequences, FiniteSets, TLC

VARIABLES
    blur,       \* the LtasgBlur constructed: options, size, plan, error
    pc,         \* where the call in progress stands ("idle": no call)
    heap,       \* the JavaScript typed arrays: id -> [kind, data]
    call,       \* the arguments of the client call in progress or last made
    proc,       \* the locals of LtasgBlur.process
    lt,         \* the arguments and locals of CoreInstance.ltasg
    mem,        \* the WebAssembly memory: word address -> float written there
    memBytes,   \* emg.memory.buffer.byteLength
    allocs,     \* the live emg_malloc blocks: [ptr, len]
    log,        \* what the call in progress has done so far, in order
    outcome,    \* how the last client call ended
    client,     \* the face sets of a client that drives CoreInstance directly
    loader      \* the global core module and the calls that ask for a module

vars == <<blur, pc, heap, call, proc, lt, mem, memBytes, allocs, log, outcome, client, loader>>

-----------------------------------------------------------------------------
(* Arithmetic helpers *)

Max(a, b) == IF a >= b THEN a ELSE b
Min(a, b) == IF a <= b THEN a ELSE b

\* Math.ceil(a / b) for a >= 0, b > 0
CeilDiv(a, b) == (a + b - 1) \div b

\* a / b rounded to the nearest integer, a >= 0, b > 0
RoundDiv(a, b) == (2 * a + b) \div (2 * b)

RECURSIVE SumSeq(_)
SumSeq(s) == IF s = <<>> THEN 0 ELSE Head(s) + SumSeq(Tail(s))

\* One float unit: samples and weights are counted in 1/Q.
Q == 2 ^ 10

\* The unit of a sigma: sigmas are counted in 1/SigmaDen.
SigmaDen == 2 * 10

\* The float NaN (every other modelled float is >= 0).
NaN == 0 - 1

IsNaN(x) == x = NaN

-----------------------------------------------------------------------------
(* ts/wasm.ts: the global core module, getGlobalCoreModule and
   CoreInstance.create.  JavaScript runs each piece of code between two awaits
   to its end before another starts, so each such piece is one step. *)

\* The asynchronous callers that ask for a module
Callers == {"a", "b", "c"}

\* A caller that has made no call yet
\* (instance: the WebAssembly instance its call works on, 0: none yet)
NoCaller == [kind |-> "none", at |-> "idle", got |-> 0, module |-> 0, instance |-> 0]

\* let globalModule = null (0); no compilation started; nobody calling.
\* promises[p] is the state of the promise the p-th WebAssembly.compile gave;
\* inits[k] is the number of calls of emg_init made on the k-th WebAssembly
\* instance.
NoLoader ==
    [ globalModule |-> 0, promises |-> <<>>, inits |-> <<>>,
      callers |-> [c \in Callers |-> NoCaller] ]

\* The module a caller supplies in options.module
OwnModule == 0 - 1

\* (a slip that compiles at every call)
NeedsCompileAlways(globalModule) == TRUE

\* if (!globalModule)
NeedsCompile(globalModule) == globalModule = 0

\* getGlobalCoreModule(): the loader after the call; the promise returned is
\* its globalModule
getGlobalCoreModule(ld) ==
    IF NeedsCompile(ld.globalModule)
    THEN [ld EXCEPT !.promises = Append(ld.promises, "pending"),
                    !.globalModule = Len(ld.promises) + 1]
    ELSE ld

\* emg.emg_init() on instance k
emg_init(inits, k) == [inits EXCEPT ![k] = @ + 1]

\* The instance WebAssembly.instantiate makes next
NewInstance(inits) == Len(inits) + 1

\* new CoreInstance({module, instance}) on instance k, an instance in use or
\* a new one: the constructor calls emg_init on it
NewCoreInstance(inits, k) ==
    emg_init(IF k = NewInstance(inits) THEN Append(inits, 0) ELSE inits, k)

-----------------------------------------------------------------------------
(* ts/ltasgblur.ts: generateGaussianKernel and the plan builder *)

\* Math.exp(-x) for x = xq / Q >= 0, in units of 1/Q: the reciprocal of the
\* cubic Taylor polynomial of e^(x/8), raised to the 8th power.
MathExpNeg(xq) ==
    LET z  == xq \div 8
        p  == Q + z + (z * z) \div (2 * Q) + (z * z * z) \div (6 * Q * Q)
        y1 == (Q * Q) \div p
        y2 == (y1 * y1) \div Q
        y4 == (y2 * y2) \div Q
    IN  (y4 * y4) \div Q

\* The unnormalised tap i of generateGaussianKernel(radius, sigma), with
\* sigma^2 = s2n / s2d:  exp(-0.5 * ((i - radius) / sigma) ** 2).
\* sigma = 0 makes (i - radius) / sigma either 0/0 = NaN or +-Infinity;
\* the only tap of a radius-0 kernel is the 0/0 one.
GaussTap(i, radius, s2n, s2d) ==
    LET d == i - radius
    IN  IF s2n = 0
        THEN (IF d = 0 THEN NaN ELSE 0)
        ELSE MathExpNeg((d * d * s2d * Q) \div (2 * s2n))

\* generateGaussianKernel(radius, sigma), sigma^2 = s2n / s2d (s2d > 0).
\* A NaN tap makes sum NaN, and the normalisation turns every tap into NaN.
generateGaussianKernel(radius, s2n, s2d) ==
    LET v   == [i \in 1..(2 * radius + 1) |-> GaussTap(i - 1, radius, s2n, s2d)]
        bad == \E i \in 1..Len(v) : IsNaN(v[i])
        sum == SumSeq(v)
    IN  IF bad THEN [i \in 1..Len(v) |-> NaN]
        ELSE [i \in 1..Len(v) |-> RoundDiv(v[i] * Q, sum)]

\* `x || dflt` of an option that is a number or undefined (0 stands for undefined;
\* JavaScript treats 0 the same way).
OrDefault(x, dflt) == IF x = 0 THEN dflt ELSE x

\* The bitwise operators of JavaScript work on signed 32-bit integers and take
\* the shift count modulo 32.  The operands met here are within 32 bits.
\* 1 << n
Shl32One(n) ==
    LET k == n % 32
    IN  IF k = 31 THEN 0 - 2147483647 - 1 ELSE 2 ^ k

\* x >> n (sign-propagating) for x within 32 bits
Sar32(x, n) ==
    LET k == n % 32
    IN  IF k = 31 THEN (IF x < 0 THEN 0 - 1 ELSE 0) ELSE x \div (2 ^ k)

\* const size = (this.size + (1 << i) - 1) >> i      (i is the 0-based level)
LevelSize(imageSize, i) == Sar32((imageSize + Shl32One(i)) - 1, i)

\* (a slip that drops the per-pass sigma limit)
NumPassesUncapped(rv, kernelWidth, minNumPasses) == minNumPasses

\* (a slip that takes one pass as the minimum whatever the option says)
NumPassesMinOne(rv, kernelWidth, minNumPasses) ==
    Max(CeilDiv(rv * 4 * kernelWidth * kernelWidth, SigmaDen * SigmaDen), 1)

\* Math.max(Math.ceil(residueVar / (sigmaLimit * sigmaLimit)), minNumPasses)
\* with sigmaLimit = 0.5 / kernelWidth and residueVar = rv / SigmaDen^2.
NumPasses(rv, kernelWidth, minNumPasses) ==
    Max(CeilDiv(rv * 4 * kernelWidth * kernelWidth, SigmaDen * SigmaDen), minNumPasses)

\* Math.floor(levelSigma * kernelResolution * kernelWidth) with
\* levelSigma = Math.sqrt(residueVar / numPasses) * size: the largest r with
\* r^2 * SigmaDen^2 * numPasses <= rv * (size * kernelResolution * kernelWidth)^2
\* (0 when the residue is 0, whatever the size).
KernelRadius(rv, numPasses, size, kernelResolution, kernelWidth) ==
    LET m == size * kernelResolution * kernelWidth
    IN  IF rv = 0 THEN 0
        ELSE IF m < 0
        \* a negative size: the floor of a negative number
        THEN 0 - (CHOOSE k \in 0..(0 - m) :
                     /\ k * k * SigmaDen * SigmaDen * numPasses >= rv * m * m
                     /\ k > 0 => (k - 1) * (k - 1) * SigmaDen * SigmaDen * numPasses < rv * m * m)
        ELSE CHOOSE r \in 0..m :
            /\ r * r * SigmaDen * SigmaDen * numPasses <= rv * m * m
            /\ (r + 1) * (r + 1) * SigmaDen * SigmaDen * numPasses > rv * m * m

\* new Float32Array(radius * 2 + 1) throws a RangeError on a negative length
ErrInvalidLength == "Invalid typed array length"

InvalidLength(o, i, rv) ==
    LET kernelWidth == OrDefault(o.kernelWidth, 3)
        numPasses   == NumPasses(rv, kernelWidth, OrDefault(o.minNumPasses, 2))
    IN  KernelRadius(rv, numPasses, LevelSize(o.imageSize, i),
                     OrDefault(o.kernelResolution, 2), kernelWidth) * 2 + 1 < 0

\* One iteration of the constructor's loop for level i (0-based), given the
\* residue variance rv (in 1/SigmaDen^2): the plan entry pushed.
PlanEntry(o, i, rv) ==
    LET minNumPasses     == OrDefault(o.minNumPasses, 2)
        kernelWidth      == OrDefault(o.kernelWidth, 3)
        kernelResolution == OrDefault(o.kernelResolution, 2)
        size             == LevelSize(o.imageSize, i)
        numPasses        == NumPasses(rv, kernelWidth, minNumPasses)
        kernelRadius     == KernelRadius(rv, numPasses, size, kernelResolution, kernelWidth)
        \* (levelSigma * kernelResolution)^2 as a fraction
        s2n == rv * size * size * kernelResolution * kernelResolution
        s2d == SigmaDen * SigmaDen * numPasses
    IN  [ kernel      |-> generateGaussianKernel(kernelRadius, s2n, s2d),
          kernelScale |-> [num |-> 1, den |-> kernelResolution],
          numPasses   |-> numPasses,
          \* not stored by the code: kept for the properties
          residueVar  |-> rv,
          levelSize   |-> size ]

ErrMonotonic == "mipLevelSigmas must be a monotonically increasing sequence"

\* (a slip that never advances lastVariance)
NextLastVarianceStale(desiredVar, lastVariance) == lastVariance

\* lastVariance = desiredVar
NextLastVariance(desiredVar, lastVariance) == desiredVar

\* (a slip that also rejects a repeated sigma)
ResidueRejectedOrZero(residueVar) == residueVar <= 0

\* if (residueVar < 0) throw
ResidueRejected(residueVar) == residueVar < 0

\* The constructor's loop from level i (1-based index into mipLevelSigmas) on.
RECURSIVE PlanFrom(_, _, _, _)
PlanFrom(o, i, lastVariance, plan) ==
    IF i > Len(o.mipLevelSigmas) THEN [err |-> "", plan |-> plan]
    ELSE LET desiredSigma == o.mipLevelSigmas[i]
             desiredVar   == desiredSigma * desiredSigma
             residueVar   == desiredVar - lastVariance
         IN  IF ResidueRejected(residueVar)
             THEN [err |-> ErrMonotonic, plan |-> plan]
             ELSE IF InvalidLength(o, i - 1, residueVar)
             THEN [err |-> ErrInvalidLength, plan |-> plan]
             ELSE PlanFrom(o, i + 1, NextLastVariance(desiredVar, lastVariance),
                           Append(plan, PlanEntry(o, i - 1, residueVar)))

\* (a constructor that rejects the sizes CoreInstance.ltasg rejects)
NewLtasgBlurSizeChecked(o) ==
    LET r == IF o.imageSize > 32768
             THEN [err |-> "The image is too large", plan |-> <<>>]
             ELSE PlanFrom(o, 1, 0, <<>>)
    IN  [ status  |-> IF r.err = "" THEN "ok" ELSE "threw",
          err     |-> r.err,
          options |-> o,
          size    |-> o.imageSize,
          plan    |-> IF r.err = "" THEN r.plan ELSE <<>> ]

\* new LtasgBlur(options): the object built, or the error thrown.
NewLtasgBlur(o) ==
    LET r == PlanFrom(o, 1, 0, <<>>)
    IN  [ status  |-> IF r.err = "" THEN "ok" ELSE "threw",
          err     |-> r.err,
          options |-> o,
          size    |-> o.imageSize,
          plan    |-> IF r.err = "" THEN r.plan ELSE <<>> ]

NoBlur == [status |-> "none", err |-> "", options |-> <<>>, size |-> 0, plan |-> <<>>]

-----------------------------------------------------------------------------
(* ts/image.ts: formats, coercion to and from float RGBA, resampling *)

\* enum ImageFormat
Srgbx8 == 0
Srgba8StraightAlpha == 1
RgbaF32PremulAlpha == 2

ErrInvalidType == "Invalid type for RgbaF32PremulAlpha"
ErrInvalidFormat == "Invalid ImageFormat"

\* A typed array: kind is "u8" (Uint8Array) or "f32" (Float32Array).
U8(data) == [kind |-> "u8", data |-> data]
F32(data) == [kind |-> "f32", data |-> data]

\* arr[j] for a 0-based j; reading past the end gives undefined, NaN in arithmetic
At(data, j) == IF j >= 0 /\ j < Len(data) THEN data[j + 1] ELSE NaN

\* The bytes the modelled images are made of.
SampleBytes == {0, 128, 255}

\* SRGB_DECODE_TABLE at the sample bytes, in 1/Q:
\* i / 255 < 0.04045 ? i / 255 / 12.92 : ((i / 255 + 0.055) / 1.055) ** 2.4
\*   0 -> 0,  128 -> 0.21586,  255 -> 1
SRGB_DECODE_TABLE(b) ==
    CASE b = 0   -> 0
      [] b = 128 -> (21586 * Q) \div 100000
      [] b = 255 -> Q
      [] OTHER   -> NaN

\* x * y of two floats counted in 1/Q
FMul(x, y) == IF IsNaN(x) \/ IsNaN(y) THEN NaN ELSE RoundDiv(x * y, Q)

\* u8[i + 3] * (1 / 255) + 1e-20
AlphaOfByte(b) == IF IsNaN(b) THEN NaN ELSE RoundDiv(b * Q, 255)

\* The loop of the Srgba8StraightAlpha case: element j of f32.
DecodeStraightAlpha(u8, j) ==
    LET a == AlphaOfByte(At(u8, j - (j % 4) + 3))
    IN  IF j % 4 = 3 THEN a ELSE FMul(SRGB_DECODE_TABLE(At(u8, j)), a)

\* The loop of the Srgbx8 case: element j of f32.
DecodeOpaque(u8, j) ==
    IF j % 4 = 3 THEN Q ELSE SRGB_DECODE_TABLE(At(u8, j))

\* coerceToRgbaF32PremulAlphaFrom(heap[img], format): the error thrown, or the
\* id of the array returned and the heap with it (the image itself for a float
\* image of the float format, else a new array).
coerceToRgbaF32PremulAlphaFrom(h, img, format) ==
    LET image == h[img]
        fresh(f(_, _)) ==
            [ err |-> "", id |-> Len(h) + 1,
              heap |-> Append(h, F32([j \in 1..Len(image.data) |-> f(image.data, j - 1)])) ]
        threw(e) == [err |-> e, id |-> 0, heap |-> h]
    IN  CASE format = RgbaF32PremulAlpha ->
                IF image.kind = "f32" THEN [err |-> "", id |-> img, heap |-> h]
                ELSE threw(ErrInvalidType)
          [] format = Srgba8StraightAlpha ->
                IF image.kind = "f32" THEN threw(ErrInvalidType)
                ELSE fresh(DecodeStraightAlpha)
          [] format = Srgbx8 ->
                IF image.kind = "f32" THEN threw(ErrInvalidType)
                ELSE fresh(DecodeOpaque)
          [] OTHER -> threw(ErrInvalidFormat)

\* SRGB_ENCODE_TABLE[i], i in 0..65535: the curve
\* (x < 0.0031308 ? 12.92 * x : 1.055 * x ** (1 / 2.4) - 0.055) * 255 + 0.5 | 0
\* of x = min(i / 65000, 1), linear between the points listed.
EncodeKnots ==
    << <<0, 0>>, <<203, 10>>, <<3250, 63>>, <<14031, 128>>, <<32500, 188>>, <<65000, 255>> >>

SRGB_ENCODE_TABLE(i) ==
    LET t == Min(i, 65000)
        k == CHOOSE n \in 1..(Len(EncodeKnots) - 1) :
                 EncodeKnots[n][1] <= t /\ t <= EncodeKnots[n + 1][1]
        a == EncodeKnots[k]
        b == EncodeKnots[k + 1]
    IN  a[2] + ((t - a[1]) * (b[2] - a[2])) \div (b[1] - a[1])

\* table[$fr(image[i] * $fr(65000 / a)) & 0xffff]: NaN and Infinity index 0
EncodeColour(v, a) ==
    IF IsNaN(v) \/ IsNaN(a) \/ a = 0 THEN SRGB_ENCODE_TABLE(0)
    ELSE SRGB_ENCODE_TABLE(((v * 65000) \div a) % 65536)

\* u8[i + 3] = $fr(a * 255) + 0.5, stored into a Uint8Array
EncodeAlpha(a) == IF IsNaN(a) THEN 0 ELSE ((2 * a * 255 + Q) \div (2 * Q)) % 256

\* The loop of coerceRgbaF32PremulAlphaTo: element j of u8.
EncodeElement(image, j) ==
    LET a == At(image, j - (j % 4) + 3)
    IN  IF j % 4 = 3 THEN EncodeAlpha(a) ELSE EncodeColour(At(image, j), a)

\* coerceRgbaF32PremulAlphaTo(heap[img], format)
coerceRgbaF32PremulAlphaTo(h, img, format) ==
    IF format = RgbaF32PremulAlpha THEN [err |-> "", id |-> img, heap |-> h]
    ELSE IF format \in {Srgba8StraightAlpha, Srgbx8}
    THEN [ err |-> "", id |-> Len(h) + 1,
           heap |-> Append(h, U8([j \in 1..Len(h[img].data) |->
                                      EncodeElement(h[img].data, j - 1)])) ]
    ELSE [err |-> ErrInvalidFormat, id |-> 0, heap |-> h]

\* $fr($fr(a + b) + $fr(c + d)) * 0.25
BoxAverage(a, b, c, d) ==
    IF IsNaN(a) \/ IsNaN(b) \/ IsNaN(c) \/ IsNaN(d) THEN NaN
    ELSE RoundDiv(a + b + c + d, 4)

\* The 2x2 branch of resampleRgbF32: element j of outImage.
ResampleBox(inImage, inWidth, outWidth, j) ==
    LET c == j % 4
        x == (j \div 4) % outWidth
        y == (j \div 4) \div outWidth
        inIndex1 == (y * 2 * inWidth) * 4 + 8 * x
        inIndex2 == inIndex1 + inWidth * 4
    IN  BoxAverage(At(inImage, inIndex1 + c), At(inImage, inIndex1 + 4 + c),
                   At(inImage, inIndex2 + c), At(inImage, inIndex2 + 4 + c))

\* The general branch of resampleRgbF32 (linear interpolation): element j of
\* outImage.  Sample x lies at inX + x * inDX = (inWidth - outWidth + 2 * x *
\* inWidth) / (2 * outWidth), and likewise for y.
ResampleLinear(inImage, inWidth, inHeight, outWidth, outHeight, j) ==
    LET c == j % 4
        x == (j \div 4) % outWidth
        y == (j \div 4) \div outWidth
        dX == 2 * outWidth
        dY == 2 * outHeight
        nX == inWidth - outWidth + 2 * x * inWidth
        nY == inHeight - outHeight + 2 * y * inHeight
        fX == nX \div dX
        fY == nY \div dY
        cX == CeilDiv(nX, dX)
        cY == CeilDiv(nY, dY)
        facX2 == nX - fX * dX
        facX1 == dX - facX2
        facY2 == nY - fY * dY
        facY1 == dY - facY2
        v1 == At(inImage, fY * inWidth * 4 + fX * 4 + c)
        v2 == At(inImage, fY * inWidth * 4 + cX * 4 + c)
        v3 == At(inImage, cY * inWidth * 4 + fX * 4 + c)
        v4 == At(inImage, cY * inWidth * 4 + cX * 4 + c)
    IN  IF IsNaN(v1) \/ IsNaN(v2) \/ IsNaN(v3) \/ IsNaN(v4) THEN NaN
        ELSE RoundDiv((v1 * facY1 + v3 * facY2) * facX1 + (v2 * facY1 + v4 * facY2) * facX2,
                      dX * dY)

\* (a slip that sizes the new array like the source of a 2x reduction)
ResampleLengthOfSource(outWidth, outHeight) == (2 * outWidth) * (2 * outHeight) * 4

\* The length of the array resampleRgbF32 allocates
ResampleLength(outWidth, outHeight) == outWidth * outHeight * 4

\* if (inWidth === outWidth * 2 && inHeight === outHeight * 2): the 2x2 box
\* average is taken, else the linear interpolation
TakesBoxPath(inWidth, inHeight, outWidth, outHeight) ==
    inWidth = outWidth * 2 /\ inHeight = outHeight * 2

\* resampleRgbF32(inImage, inWidth, inHeight, outWidth, outHeight): the data of
\* the new array (the caller never asks for a magnification).
resampleRgbF32(inImage, inWidth, inHeight, outWidth, outHeight) ==
    IF TakesBoxPath(inWidth, inHeight, outWidth, outHeight)
    THEN [j \in 1..ResampleLength(outWidth, outHeight) |->
              ResampleBox(inImage, inWidth, outWidth, j - 1)]
    ELSE [j \in 1..ResampleLength(outWidth, outHeight) |->
              ResampleLinear(inImage, inWidth, inHeight, outWidth, outHeight, j - 1)]

-----------------------------------------------------------------------------
(* The WebAssembly core behind CoreExports: memory, emg_malloc, emg_free and
   emg_ltasg_single.  The compiled core is not part of the TypeScript sources;
   it is modelled from its interface and from the design of the single-axis
   convolution. *)

\* What a read of a word nobody has written gives.
Garbage == 0 - 2

PageBytes == 65536

\* The byte length of the instance's memory when it is created.
InitialMemBytes == PageBytes

\* The addresses emg_malloc may hand out.
MallocBases == {1024, PageBytes + 1024}

MemRead(m, a) == IF a \in DOMAIN m THEN m[a] ELSE Garbage

\* The words a..a+Len(data)-1 of m set to data.
MemWrite(m, a, data) ==
    [x \in DOMAIN m \cup (a..(a + Len(data) - 1)) |->
        IF x >= a /\ x < a + Len(data) THEN data[x - a + 1] ELSE m[x]]

\* The smallest whole number of pages holding n bytes, in bytes.
PageCeil(n) == CeilDiv(n, PageBytes) * PageBytes

\* emg_malloc(size): a block of size bytes clear of every live block; the
\* allocator grows the memory to hold it.
MallocChoices(size, live) ==
    { p \in MallocBases :
        \A b \in live : p + size <= b.ptr \/ b.ptr + b.len <= p }

\* emg_free(ptr): the block is no longer live and its contents are lost.
FreeBlock(live, ptr) == { b \in live : b.ptr # ptr }

MemAfterFree(m, live, ptr) ==
    [x \in { a \in DOMAIN m :
               \A b \in live : b.ptr = ptr => ~(4 * a >= b.ptr /\ 4 * a < b.ptr + b.len) }
        |-> m[x]]

\* round(n / d), halves away from zero (d > 0)
RoundHalfAway(n, d) ==
    IF n >= 0 THEN (2 * n + d) \div (2 * d) ELSE 0 - ((2 * (0 - n) + d) \div (2 * d))

\* The face and pixel a tap at pixel offset d from (f, u, v) reads, for a
\* convolution along axis phase.  Faces 2p and 2p+1 are the two faces across
\* axis p; a tap that leaves the face lands on a face of another axis.
TapSource(f, u, v, d, size, phase) ==
    LET p == f \div 2
    IN  CASE phase = 0 ->
                IF u + d >= 0 /\ u + d < size THEN <<f, u + d, v>>
                ELSE <<2 * ((p + 1) % 3) + (IF u + d < 0 THEN 1 ELSE 0), (u + d) % size, v>>
          [] phase = 1 ->
                IF v + d >= 0 /\ v + d < size THEN <<f, u, v + d>>
                ELSE <<2 * ((p + 2) % 3) + (IF v + d < 0 THEN 1 ELSE 0), u, (v + d) % size>>
          [] OTHER ->
                IF d = 0 THEN <<f, u, v>>
                ELSE <<2 * ((p + (IF d > 0 THEN 1 ELSE 2)) % 3) + (f % 2),
                       (u + d) % size, (v + d) % size>>

\* kernel[i] * source(tap i), summed over the taps i..kernel_size-1
ConvSum(m, inW, size, kernelW, kernel_size, scale, phase, f, u, v, c) ==
    LET elements == size * size * 4
        radius   == kernel_size \div 2
        term(i) ==
            LET src == TapSource(f, u, v, RoundHalfAway((i - radius) * scale.num, scale.den),
                                 size, phase)
                w == MemRead(m, kernelW + i)
                x == MemRead(m, inW + src[1] * elements + (src[3] * size + src[2]) * 4 + c)
            IN  IF w = Garbage \/ x = Garbage THEN Garbage
                ELSE IF IsNaN(w) \/ IsNaN(x) THEN NaN
                ELSE w * x
        terms == [i \in 1..kernel_size |-> term(i - 1)]
    IN  IF \E i \in 1..kernel_size : terms[i] = Garbage THEN Garbage
        ELSE IF \E i \in 1..kernel_size : IsNaN(terms[i]) THEN NaN
        ELSE RoundDiv(SumSeq(terms), Q)

\* emg_ltasg_single(out_faces, in_faces, size, kernel, kernel_size,
\* kernel_scale, phase): the memory after the six faces at out_faces have been
\* written with the convolution of the six faces at in_faces along axis phase.
emg_ltasg_single(m, out_faces, in_faces, size, kernel, kernel_size, kernel_scale, phase) ==
    LET elements == size * size * 4
        outW == out_faces \div 4
        inW  == in_faces \div 4
        kW   == kernel \div 4
        conv(j) ==
            LET f  == j \div elements
                px == (j % elements) \div 4
            IN  ConvSum(m, inW, size, kW, kernel_size, kernel_scale, phase,
                        f, px % size, px \div size, j % 4)
    IN  [x \in DOMAIN m \cup (outW..(outW + 6 * elements - 1)) |->
            IF x >= outW /\ x < outW + 6 * elements THEN conv(x - outW) ELSE m[x]]

-----------------------------------------------------------------------------
(* ts/wasm.ts: CoreInstance.ltasg *)

ErrInFacesArity == "inFaces.length >= 6"
ErrOutFacesArity == "outFaces.length must be >= 6"
ErrInFaceShort == "inFaces[i].length >= elements"
ErrOutFaceShort == "outFaces[i].length >= elements"
ErrFormat == "format must be RgbaF32PremulAlpha"
ErrKernelEven == "kernel must be odd-sized"
ErrKernelScale == "kernelScale must be a positive number"
ErrKernelTooLarge == "kernel is too large compared to the image size"
ErrImageTooLarge == "The image is too large"
ErrNumPasses == "numPasses must be a positive number"
ErrRange == "RangeError"

\* One entry of the log: an operation and up to three numbers about it.
Ev(op, a, b, c) == [op |-> op, a |-> a, b |-> b, c |-> c]

NoLt ==
    [ caller |-> "", inFaces |-> <<>>, outFaces |-> <<>>, size |-> 0, format |-> 0,
      kernel |-> <<>>, kernelScale |-> [num |-> 0, den |-> 1], numPasses |-> 0,
      pBuffer |-> 0, bufferLen |-> 0, pImages1 |-> 0, pImages2 |-> 0, pKernel |-> 0,
      i |-> 0, k |-> 0 ]

\* The frame of a call ltasg(inFaces, outFaces, size, format, kernel,
\* kernelScale, numPasses)
LtasgFrame(caller, inFaces, outFaces, size, format, kernel, kernelScale, numPasses) ==
    [ NoLt EXCEPT !.caller = caller, !.inFaces = inFaces, !.outFaces = outFaces,
                  !.size = size, !.format = format, !.kernel = kernel,
                  !.kernelScale = kernelScale, !.numPasses = numPasses ]

\* const elements = pixels * channels
Elements(size) == size * size * 4

\* The first i (1..6) whose inFaces[i] or outFaces[i] is too short, as the
\* error the loop throws there ("" when none is).
RECURSIVE FaceLengthError(_, _, _)
FaceLengthError(h, f, i) ==
    IF i > 6 THEN ""
    ELSE IF Len(h[f.inFaces[i]].data) < Elements(f.size) THEN ErrInFaceShort
    ELSE IF Len(h[f.outFaces[i]].data) < Elements(f.size) THEN ErrOutFaceShort
    ELSE FaceLengthError(h, f, i + 1)

\* !(size > kernelRadius * kernelScale * 1.8)
KernelTooLarge(size, kernelRadius, kernelScale) ==
    ~(size * kernelScale.den * 10 > kernelRadius * kernelScale.num * 18)

\* The fail-fast part of ltasg: the error thrown, "" when every check passes.
LtasgError(h, f) ==
    IF Len(f.inFaces) < 6 THEN ErrInFacesArity
    ELSE IF Len(f.outFaces) < 6 THEN ErrOutFacesArity
    ELSE IF FaceLengthError(h, f, 1) # "" THEN FaceLengthError(h, f, 1)
    ELSE IF f.format # RgbaF32PremulAlpha THEN ErrFormat
    ELSE IF Len(f.kernel) % 2 = 0 THEN ErrKernelEven
    ELSE IF ~(f.kernelScale.num > 0) THEN ErrKernelScale
    ELSE IF KernelTooLarge(f.size, Len(f.kernel) \div 2, f.kernelScale) THEN ErrKernelTooLarge
    ELSE IF f.size > 32768 THEN ErrImageTooLarge
    ELSE IF f.numPasses < 0 THEN ErrNumPasses
    ELSE ""

\* const bufferLen = elements * 48 + kernel.length * 4
BufferLen(f) == Elements(f.size) * 48 + Len(f.kernel) * 4

\* ((pBuffer + bufferLen + 0xffff) >> 16) - emg.memory.buffer.byteLength
GrowExtra(pBuffer, bufferLen, byteLength) ==
    ((pBuffer + bufferLen + 65535) \div 65536) - byteLength

\* (a slip that leaves room for one face only)
PImages2AfterOneFace(pBuffer, size) == pBuffer + Elements(size) * 4

\* let pImages2 = pBuffer + elements * 4 * 6
PImages2(pBuffer, size) == pBuffer + Elements(size) * 4 * 6

\* const pKernel = pImages2 + elements * 4 * 6
PKernel(pBuffer, size) == PImages2(pBuffer, size) + Elements(size) * 4 * 6

\* The byte offset the upload of input face i (0..5) starts at
UploadOffset(pImages1, size, i) == pImages1 + i * (Elements(size) * 4)

\* (a slip that uploads the output face)
UploadFromOutput(f, i) == f.outFaces[i]

\* The array the upload of face i (1..6) reads
UploadSource(f, i) == f.inFaces[i]

\* new Float32Array(emg.memory.buffer, offset).set(inFaces[i]) for i = from..6
RECURSIVE UploadFaces(_, _, _, _)
UploadFaces(m, h, f, from) ==
    IF from > 6 THEN m
    ELSE UploadFaces(MemWrite(m, UploadOffset(f.pImages1, f.size, from - 1) \div 4,
                              h[UploadSource(f, from)].data),
                     h, f, from + 1)

\* The upload would write past the end of the memory
UploadOutOfRange(h, f, byteLength) ==
    \/ \E i \in 1..6 :
          UploadOffset(f.pImages1, f.size, i - 1) + 4 * Len(h[f.inFaces[i]].data) > byteLength
    \/ f.pKernel + 4 * Len(f.kernel) > byteLength

\* (a slip that reads the other buffer)
RetrieveOtherBuffer(f) == f.pImages2

\* (a slip that reads the start of the block, whatever the number of swaps)
RetrieveFromBlockStart(f) == f.pBuffer

\* The buffer the outputs are retrieved from
RetrieveSource(f) == f.pImages1

\* The elements of face i (0..5) as they stand in the memory at p
FaceInMemory(m, p, size, i) ==
    [j \in 1..Elements(size) |-> MemRead(m, (p + i * (Elements(size) * 4)) \div 4 + j - 1)]

\* dst.set(src): the first Len(src) elements of dst replaced
ArraySet(dst, src) ==
    [j \in 1..Len(dst) |-> IF j <= Len(src) THEN src[j] ELSE dst[j]]

\* outFaces[i].set(new Float32Array(emg.memory.buffer, ..., elements)) for i = from..6
RECURSIVE RetrieveFaces(_, _, _, _)
RetrieveFaces(h, m, f, from) ==
    IF from > 6 THEN h
    ELSE RetrieveFaces(
            [h EXCEPT ![f.outFaces[from]].data =
                ArraySet(@, FaceInMemory(m, RetrieveSource(f), f.size, from - 1))],
            m, f, from + 1)

-----------------------------------------------------------------------------
(* The state machine: a client that builds an LtasgBlur and calls process, or
   one that drives CoreInstance.ltasg directly on two face sets X and Y *)

ErrArity == "input.length must be >= 6"
ErrTooSmall == "One of the input images is too small"

NoProc ==
    [ fi |-> 0, baseLevel |-> <<>>, levels |-> <<>>, currentLevel |-> <<>>,
      currentSize |-> 0, i |-> 0 ]

NoCall == [kind |-> "none"]

NoOutcome == [kind |-> "none", err |-> "", levels |-> <<>>]

NoClient ==
    [ set |-> FALSE, size |-> 0, kernel |-> <<>>, kernelScale |-> [num |-> 0, den |-> 1],
      X |-> <<>>, Y |-> <<>>,
      rounds |-> [s \in {"X", "Y"} |-> 0],
      calls |-> [s \in {"X", "Y"} |-> 0],
      inPlace |-> [s \in {"X", "Y"} |-> FALSE] ]

Threw(e) == [kind |-> "threw", err |-> e, levels |-> <<>>]

Returned(levels) == [kind |-> "returned", err |-> "", levels |-> levels]

InitRun ==
    /\ loader = NoLoader
    /\ pc = "idle"
    /\ heap = <<>>
    /\ call = NoCall
    /\ proc = NoProc
    /\ lt = NoLt
    /\ mem = <<>>
    /\ memBytes = InitialMemBytes
    /\ allocs = {}
    /\ log = <<>>
    /\ outcome = NoOutcome
    /\ client = NoClient

(* The images a client passes *)

\* Byte j (1-based) of input face f: colours from SampleBytes, alpha 128 or 255
InputByte(f, j) ==
    IF j % 4 = 0 THEN (IF (f + j \div 4) % 2 = 0 THEN 255 ELSE 128)
    ELSE <<0, 128, 255>>[((f + j) % 3) + 1]

\* Float j (1-based) of input face f, in 1/Q: alpha 1, colours below 1/2
InputFloat(f, j) ==
    IF j % 4 = 0 THEN Q ELSE (f * 64 + j * 16) % 512

InputArray(arrKind, f, len) ==
    IF arrKind = "u8" THEN U8([j \in 1..len |-> InputByte(f, j)])
    ELSE F32([j \in 1..len |-> InputFloat(f, j)])

\* The length of input face f for a call: every face has extra elements more
\* than size * size * 4, but face `short`, which is one pixel short of it.
InputLength(a, size, f) ==
    IF f = a.short THEN Max(0, Elements(size) - 4) ELSE Elements(size) + a.extra

InputArrays(a, size) ==
    [f \in 1..a.nFaces |-> InputArray(a.arrKind, f, InputLength(a, size, f))]

(* LtasgBlur.process *)

\* if (f32 === img) f32 = new Float32Array(f32): the array kept and the heap
KeepShared(h, id, img) == [id |-> id, heap |-> h]

MakeUnique(h, id, img) ==
    IF id = img THEN [id |-> Len(h) + 1, heap |-> Append(h, F32(h[img].data))]
    ELSE [id |-> id, heap |-> h]

\* The call ends by throwing e: every frame is popped.
Throw(e) ==
    /\ outcome' = Threw(e)
    /\ pc' = "idle"
    /\ proc' = NoProc
    /\ lt' = NoLt

\* (a slip that lets five faces through)
ArityRejectedBelowFive(n) == n < 5

\* if (input.length < 6) throw
ArityRejected(n) == n < 6

\* (a slip that measures three channels a pixel)
FaceTooSmallRgb(len, size) == len < size * size * 3

\* if (f32.length < size * size * 4) throw
FaceTooSmall(len, size) == len < size * size * 4

\* process(input, inFormat, outFormat), up to and including the arity check
Process(a) ==
    /\ pc = "idle"
    /\ blur.status = "ok"
    /\ ~client.set
    /\ heap' = InputArrays(a, blur.size)
    /\ call' = [ kind |-> "process", nFaces |-> a.nFaces, inFormat |-> a.inFormat,
                 outFormat |-> a.outFormat, input |-> InputArrays(a, blur.size) ]
    /\ log' = <<>>
    /\ IF ArityRejected(a.nFaces)
       THEN Throw(ErrArity)
       ELSE /\ pc' = "p_coerce"
            /\ proc' = NoProc
            /\ lt' = NoLt
            /\ outcome' = NoOutcome
    /\ UNCHANGED <<loader, blur, mem, memBytes, allocs, client>>

\* One call of the callback of table(6, ...): face proc.fi is coerced, made
\* unique and measured
CoerceFace ==
    /\ pc = "p_coerce"
    /\ LET img == proc.fi + 1
           r   == coerceToRgbaF32PremulAlphaFrom(heap, img, call.inFormat)
           u   == MakeUnique(r.heap, r.id, img)
       IN  IF r.err # ""
           THEN /\ Throw(r.err)
                /\ UNCHANGED <<heap, log>>
           ELSE /\ heap' = u.heap
                /\ log' = Append(log, Ev("coerce", proc.fi, u.id, 0))
                /\ IF FaceTooSmall(Len(u.heap[u.id].data), blur.size)
                   THEN Throw(ErrTooSmall)
                   ELSE /\ proc' =
                             IF proc.fi = 5
                             THEN [ proc EXCEPT !.fi = 6,
                                       !.baseLevel = Append(@, u.id),
                                       !.currentLevel = Append(proc.baseLevel, u.id),
                                       !.currentSize = blur.size ]
                             ELSE [ proc EXCEPT !.fi = @ + 1, !.baseLevel = Append(@, u.id) ]
                        /\ pc' = IF proc.fi = 5 THEN "p_level" ELSE "p_coerce"
                        /\ UNCHANGED <<lt, outcome>>
    /\ UNCHANGED <<loader, blur, call, mem, memBytes, allocs, client>>

\* (a slip that rounds the half down)
HalfSizeFloor(currentSize) == currentSize \div 2

\* newSize = (newSize + 1) >> 1
HalfSize(currentSize) == (currentSize + 1) \div 2

\* (a slip that resamples the caller's input faces)
ResampledHeapOfInput(h, currentLevel, currentSize, newSize) ==
    h \o [f \in 1..Len(currentLevel) |->
            F32(resampleRgbF32(h[f].data, currentSize, currentSize, newSize, newSize))]

\* currentLevel.map(image => resampleRgbF32(...)): the heap with the six new
\* arrays appended after it
ResampledHeap(h, currentLevel, currentSize, newSize) ==
    h \o [f \in 1..Len(currentLevel) |->
            F32(resampleRgbF32(h[currentLevel[f]].data, currentSize, currentSize,
                               newSize, newSize))]

\* (a slip that takes the entry off the plan with shift())
PlanAfterShift(b, i) == [b EXCEPT !.plan = Tail(@)]

\* const {kernel, kernelScale, numPasses} = plan[i]: what reading the entry of
\* level i leaves of the LtasgBlur
PlanAfterRead(b, i) == b

\* (a slip that resamples into the faces of the previous level)
ResampledInPlace(h, currentLevel) == currentLevel

\* currentLevel.map(image => resampleRgbF32(...)): the arrays of the new
\* level, each a new Float32Array
ResampledLevel(h, currentLevel) == [f \in 1..Len(currentLevel) |-> Len(h) + f]

\* The top of the level loop for level proc.i: the resampling from the
\* previous level, and the call of core.ltasg on the level in place
LevelBegin ==
    /\ pc = "p_level"
    /\ proc.i < Len(blur.plan)
    /\ LET newSize == IF proc.i > 0 THEN HalfSize(proc.currentSize) ELSE proc.currentSize
           h2 == IF proc.i > 0
                 THEN ResampledHeap(heap, proc.currentLevel, proc.currentSize, newSize)
                 ELSE heap
           level == IF proc.i > 0
                    THEN ResampledLevel(heap, proc.currentLevel)
                    ELSE proc.currentLevel
           e == blur.plan[proc.i + 1]
       IN  /\ heap' = h2
           /\ proc' = [proc EXCEPT !.currentLevel = level, !.currentSize = newSize]
           /\ lt' = LtasgFrame("process", level, level, newSize, RgbaF32PremulAlpha,
                               e.kernel, e.kernelScale, e.numPasses)
           /\ log' = IF proc.i > 0
                     THEN Append(log, Ev("resample", proc.i, proc.currentSize, newSize))
                     ELSE log
    /\ pc' = "lt_validate"
    /\ blur' = PlanAfterRead(blur, proc.i)
    /\ UNCHANGED <<loader, call, mem, memBytes, allocs, outcome, client>>

\* The faces pushed for a level: the working faces, or their encodings
EmitLevel(h, currentLevel, outFormat) ==
    IF outFormat # RgbaF32PremulAlpha
    THEN IF outFormat \in {Srgba8StraightAlpha, Srgbx8}
         THEN [ err |-> "",
                heap |-> h \o [f \in 1..Len(currentLevel) |->
                                  U8([j \in 1..Len(h[currentLevel[f]].data) |->
                                         EncodeElement(h[currentLevel[f]].data, j - 1)])],
                level |-> [f \in 1..Len(currentLevel) |-> Len(h) + f] ]
         ELSE [err |-> ErrInvalidFormat, heap |-> h, level |-> <<>>]
    ELSE [err |-> "", heap |-> h, level |-> currentLevel]

\* The bottom of the level loop: the level is encoded and pushed
LevelEmit ==
    /\ pc = "p_emit"
    /\ LET r == EmitLevel(heap, proc.currentLevel, call.outFormat)
       IN  IF r.err # ""
           THEN /\ Throw(r.err)
                /\ UNCHANGED <<heap, log>>
           ELSE /\ heap' = r.heap
                /\ proc' = [proc EXCEPT !.levels = Append(@, r.level), !.i = @ + 1]
                /\ log' = Append(log, Ev("push", proc.i, 0, 0))
                /\ pc' = "p_level"
                /\ UNCHANGED <<lt, outcome>>
    /\ UNCHANGED <<loader, blur, call, mem, memBytes, allocs, client>>

\* return levels
ProcessReturn ==
    /\ pc = "p_level"
    /\ proc.i >= Len(blur.plan)
    /\ outcome' = Returned(proc.levels)
    /\ pc' = "idle"
    /\ proc' = NoProc
    /\ UNCHANGED <<loader, blur, heap, call, lt, mem, memBytes, allocs, log, client>>

(* CoreInstance.ltasg *)

\* The fail-fast checks
LtasgValidate ==
    /\ pc = "lt_validate"
    /\ IF LtasgError(heap, lt) # ""
       THEN /\ Throw(LtasgError(heap, lt))
            /\ UNCHANGED log
       ELSE /\ pc' = "lt_alloc"
            /\ log' = Append(log, Ev("ltasg", lt.size, lt.numPasses, Len(lt.kernel)))
            /\ UNCHANGED <<proc, lt, outcome>>
    /\ UNCHANGED <<loader, blur, heap, call, mem, memBytes, allocs, client>>

\* What follows emg_malloc when it returned pBuffer and left the memory
\* `grown` bytes long: the growth of the memory and the three pointers
AllocStep(pBuffer, grown) ==
    LET bufferLen == BufferLen(lt)
        extra == GrowExtra(pBuffer, bufferLen, grown)
    IN  /\ allocs' = allocs \cup {[ptr |-> pBuffer, len |-> bufferLen]}
        /\ memBytes' = IF extra > 0 THEN grown + extra * PageBytes ELSE grown
        /\ lt' = [ lt EXCEPT !.pBuffer = pBuffer, !.bufferLen = bufferLen,
                             !.pImages1 = pBuffer,
                             !.pImages2 = PImages2(pBuffer, lt.size),
                             !.pKernel = PKernel(pBuffer, lt.size) ]
        /\ log' = IF extra > 0
                  THEN log \o <<Ev("malloc", pBuffer, bufferLen, grown), Ev("grow", extra, 0, 0)>>
                  ELSE Append(log, Ev("malloc", pBuffer, bufferLen, grown))
        /\ pc' = "lt_upload"
        /\ UNCHANGED <<loader, blur, heap, call, proc, mem, outcome, client>>

\* emg_malloc (the allocator grows the memory to hold the block), the growth
\* of the memory, and the three pointers
LtasgAlloc ==
    /\ pc = "lt_alloc"
    /\ \E pBuffer \in MallocChoices(BufferLen(lt), allocs) :
          AllocStep(pBuffer, Max(memBytes, PageCeil(pBuffer + BufferLen(lt))))

\* The upload of the six input faces and of the kernel
LtasgUpload ==
    /\ pc = "lt_upload"
    /\ IF UploadOutOfRange(heap, lt, memBytes)
       THEN /\ Throw(ErrRange)
            /\ UNCHANGED <<mem, log>>
       ELSE /\ mem' = MemWrite(UploadFaces(mem, heap, lt, 1), lt.pKernel \div 4, lt.kernel)
            /\ log' = log \o
                      [i \in 1..6 |-> Ev("upload", i - 1,
                                         UploadOffset(lt.pImages1, lt.size, i - 1),
                                         4 * Len(heap[lt.inFaces[i]].data))]
                      \o <<Ev("kernel", 0, lt.pKernel, 4 * Len(lt.kernel))>>
            /\ pc' = "lt_pass"
            /\ UNCHANGED <<proc, lt, outcome>>
    /\ UNCHANGED <<loader, blur, heap, call, memBytes, allocs, client>>

\* (a slip that runs the axes in the reverse order)
PhaseReversed(k) == 2 - k

\* The phase argument of the k-th invocation of a round
PhaseOf(k) == k

\* One invocation of emg_ltasg_single and the swap after it
LtasgPass ==
    /\ pc = "lt_pass"
    /\ lt.i < lt.numPasses
    /\ mem' = emg_ltasg_single(mem, lt.pImages2, lt.pImages1, lt.size, lt.pKernel,
                               Len(lt.kernel), lt.kernelScale, PhaseOf(lt.k))
    /\ log' = Append(log, Ev("single", PhaseOf(lt.k), lt.pImages2, lt.pImages1))
    /\ lt' = [ lt EXCEPT !.pImages1 = lt.pImages2, !.pImages2 = lt.pImages1,
                         !.k = IF lt.k = 2 THEN 0 ELSE lt.k + 1,
                         !.i = IF lt.k = 2 THEN lt.i + 1 ELSE lt.i ]
    /\ UNCHANGED <<loader, blur, pc, heap, call, proc, memBytes, allocs, outcome, client>>

\* What a direct call that returned has made of the client's face sets: the
\* rounds its contents have been through, the calls (of at least one round)
\* that applied them, and whether the last of these calls was in place
ClientAfter(c, a) ==
    [ c EXCEPT !.rounds[a.outSet] = c.rounds[a.inSet] + a.numPasses,
               !.calls[a.outSet] = c.calls[a.inSet] + (IF a.numPasses > 0 THEN 1 ELSE 0),
               !.inPlace[a.outSet] = IF a.numPasses > 0 THEN a.inSet = a.outSet
                                     ELSE c.inPlace[a.inSet] ]

\* (a slip that frees the buffer the outputs were read from)
FreedCurrentBuffer(f) == f.pImages1

\* emg.emg_free(pBuffer)
FreedPointer(f) == f.pBuffer

\* The retrieval of the outputs, emg_free, and the return
LtasgRetrieve ==
    /\ pc = "lt_pass"
    /\ lt.i >= lt.numPasses
    /\ heap' = RetrieveFaces(heap, mem, lt, 1)
    /\ mem' = MemAfterFree(mem, allocs, FreedPointer(lt))
    /\ allocs' = FreeBlock(allocs, FreedPointer(lt))
    /\ log' = log \o [i \in 1..6 |-> Ev("retrieve", i - 1,
                                        UploadOffset(RetrieveSource(lt), lt.size, i - 1),
                                        lt.outFaces[i])]
                  \o <<Ev("free", FreedPointer(lt), 0, 0)>>
    /\ lt' = NoLt
    /\ IF lt.caller = "process"
       THEN /\ pc' = "p_emit"
            /\ UNCHANGED <<outcome, client>>
       ELSE /\ pc' = "idle"
            /\ outcome' = Returned(<<>>)
            /\ client' = ClientAfter(client, call)
    /\ UNCHANGED <<loader, blur, call, proc, memBytes>>

(* The client of CoreInstance *)

\* The client allocates two face sets X and Y with the same contents, and
\* settles on a kernel.
CoreSetup(size, k) ==
    /\ pc = "idle"
    /\ blur.status = "none"
    /\ ~client.set
    /\ heap' = [f \in 1..12 |-> InputArray("f32", ((f - 1) % 6) + 1, Elements(size))]
    /\ client' = [ NoClient EXCEPT !.set = TRUE, !.size = size, !.kernel = k.kernel,
                                   !.kernelScale = k.kernelScale,
                                   !.X = [f \in 1..6 |-> f], !.Y = [f \in 1..6 |-> 6 + f] ]
    /\ UNCHANGED <<loader, blur, pc, call, proc, lt, mem, memBytes, allocs, log, outcome>>

\* core.ltasg(inFaces, outFaces, size, format, kernel, kernelScale, numPasses)
DirectLtasg(a) ==
    /\ pc = "idle"
    /\ client.set
    /\ call' = a
    /\ lt' = LtasgFrame("direct",
                        SubSeq(client[a.inSet], 1, a.nIn), SubSeq(client[a.outSet], 1, a.nOut),
                        a.size, a.format, a.kernel, a.kernelScale, a.numPasses)
    /\ log' = <<>>
    /\ outcome' = NoOutcome
    /\ pc' = "lt_validate"
    /\ UNCHANGED <<loader, blur, heap, proc, mem, memBytes, allocs, client>>

-----------------------------------------------------------------------------
(* The plan builder on its own: options drawn from bounded sets *)

PlanMaxLevels == 2

PlanImageSizes == {1, 2, 3, 8, 16}

\* sigmas in 1/SigmaDen: 0, 0.05, 0.1, 0.2, 0.4 and one negative value
PlanSigmas == {0 - 2, 0, 1, 2, 4, 8}

SeqsUpTo(S, n) == UNION {[1..k -> S] : k \in 0..n}

\* One more than the largest size CoreInstance.ltasg accepts
PlanLargeSizes == {32768 + 1}

\* A plan of 33 levels: the same sigma for levels 0..31 and a larger one for
\* level 32, whose shift count 32 is taken modulo 32 by <<
PlanDeepSigmas == [i \in 1..33 |-> IF i <= 32 THEN 2 ELSE 4]

\* The options drawn: every combination over the small sizes, the large
\* size with sequences of zero sigmas, and the plan of 33 levels
PlanOptions ==
    [ imageSize        : {8},
      mipLevelSigmas   : {PlanDeepSigmas},
      minNumPasses     : {0},
      kernelWidth      : {0},
      kernelResolution : {0} ]
    \cup
    [ imageSize        : PlanImageSizes,
      mipLevelSigmas   : SeqsUpTo(PlanSigmas, PlanMaxLevels),
      minNumPasses     : {0, 1, 3},
      kernelWidth      : {0, 2},
      kernelResolution : {0, 1} ]
    \cup
    [ imageSize        : PlanLargeSizes,
      mipLevelSigmas   : SeqsUpTo({0}, PlanMaxLevels),
      minNumPasses     : {0, 1, 3},
      kernelWidth      : {0, 2},
      kernelResolution : {1} ]

\* new LtasgBlur(o), once per behaviour
Construct(o) ==
    /\ pc = "idle"
    /\ blur.status = "none"
    /\ ~client.set
    /\ blur' = NewLtasgBlur(o)
    \* this.core = new CoreInstance(options.core), on an instance of the client
    /\ loader' = [loader EXCEPT !.inits = NewCoreInstance(@, NewInstance(@))]
    /\ UNCHANGED <<pc, heap, call, proc, lt, mem, memBytes, allocs, log, outcome, client>>

\* The options are drawn first (InitPlan), then the constructor runs on them.
ConstructPlan == Construct(blur.options)

InitPlan ==
    /\ \E o \in PlanOptions : blur = [NoBlur EXCEPT !.options = o]
    /\ InitRun

NextPlan == ConstructPlan

SpecPlan == InitPlan /\ [][NextPlan]_vars

-----------------------------------------------------------------------------
(* The whole front end: construction, process, and direct calls of ltasg *)

MaxLevels == 2

MaxPasses == 2

\* sigmas 0.1 and 0.2
MainSigmas == {2, 4}

MainOptions ==
    [ imageSize        : {1, 2},
      mipLevelSigmas   : SeqsUpTo(MainSigmas, MaxLevels),
      minNumPasses     : {0, 1},
      kernelWidth      : {0},
      kernelResolution : {0} ]

ConstructMain == \E o \in MainOptions : Construct(o)

\* Six faces of the exact size, of either array type, in every input format
\* (3 is no format); float faces to the float format and to no format; five
\* faces, seven faces, a short seventh face; longer faces and a short face.
\* The elements added to a much longer face: twice the six slots of a face
\* of size 1
LongExtra == 2 * 6 * 4

ProcessArgs ==
    [ nFaces : {6}, arrKind : {"u8", "f32"}, inFormat : 0..3,
      outFormat : {Srgbx8}, extra : {0}, short : {0} ]
    \cup
    [ nFaces : {6}, arrKind : {"f32"}, inFormat : {RgbaF32PremulAlpha},
      outFormat : {RgbaF32PremulAlpha, 3}, extra : {0}, short : {0} ]
    \cup
    [ nFaces : {5, 7}, arrKind : {"f32"}, inFormat : {RgbaF32PremulAlpha},
      outFormat : {RgbaF32PremulAlpha}, extra : {0}, short : {0} ]
    \cup
    [ nFaces : {7}, arrKind : {"f32"}, inFormat : {RgbaF32PremulAlpha},
      outFormat : {Srgba8StraightAlpha}, extra : {0}, short : {7} ]
    \cup
    [ nFaces : {6}, arrKind : {"u8"}, inFormat : {Srgba8StraightAlpha},
      outFormat : {Srgba8StraightAlpha}, extra : {4}, short : {0, 1, 6} ]
    \cup
    [ nFaces : {6}, arrKind : {"f32"}, inFormat : {RgbaF32PremulAlpha},
      outFormat : {RgbaF32PremulAlpha}, extra : {4}, short : {0, 3} ]

\* Much longer faces, given to the one-level plans of size 1
LongProcessArgs(b) ==
    IF b.status = "ok" /\ b.size = 1 /\ Len(b.plan) = 1 /\ b.options.minNumPasses = 0
    THEN [ nFaces : {6}, arrKind : {"f32"}, inFormat : {RgbaF32PremulAlpha},
           outFormat : {RgbaF32PremulAlpha}, extra : {LongExtra}, short : {0} ]
    ELSE {}

ProcessCall == \E a \in ProcessArgs \cup LongProcessArgs(blur) : Process(a)

\* The kernels a direct client uses: three taps 1/4, 1/2, 1/4
ClientSetups ==
    { [size |-> 1, kernel |-> <<Q \div 4, Q \div 2, Q \div 4>>, kernelScale |-> [num |-> 1, den |-> 2]],
      [size |-> 2, kernel |-> <<Q \div 4, Q \div 2, Q \div 4>>, kernelScale |-> [num |-> 1, den |-> 1]] }

ClientSetup == \E k \in ClientSetups : CoreSetup(k.size, k)

\* The valid calls, with the client's kernel: X or Y in place, and X into Y
GoodDirectArgs(c) ==
    { a \in [ kind : {"direct"}, inSet : {"X", "Y"}, outSet : {"X", "Y"}, nIn : {6},
               nOut : {6}, size : {c.size}, format : {RgbaF32PremulAlpha},
               kernel : {c.kernel}, kernelScale : {c.kernelScale},
               numPasses : 0..MaxPasses ] :
        ~(a.inSet = "Y" /\ a.outSet = "X") }

\* X into Y, one pass
BaseDirectArgs(c) ==
    [ kind |-> "direct", inSet |-> "X", outSet |-> "Y", nIn |-> 6, nOut |-> 6,
      size |-> c.size, format |-> RgbaF32PremulAlpha, kernel |-> c.kernel,
      kernelScale |-> c.kernelScale, numPasses |-> 1 ]

\* The calls each of which one fail-fast check rejects
BadDirectArgs(c) ==
    LET b == BaseDirectArgs(c)
    IN  { [b EXCEPT !.nIn = 5], [b EXCEPT !.nOut = 5], [b EXCEPT !.size = c.size + 1],
          [b EXCEPT !.format = Srgbx8], [b EXCEPT !.kernel = <<Q \div 2, Q \div 2>>],
          [b EXCEPT !.kernelScale = [num |-> 0, den |-> 1]],
          [b EXCEPT !.kernel = <<0, Q \div 4, Q \div 2, Q \div 4, 0>>,
                    !.kernelScale = [num |-> 1, den |-> 1]],
          [b EXCEPT !.numPasses = 0 - 1] }

DirectCall ==
    \E a \in GoodDirectArgs(client) \cup BadDirectArgs(client) :
        /\ client.rounds[a.inSet] + a.numPasses <= MaxPasses
        /\ DirectLtasg(a)

Init ==
    /\ blur = NoBlur
    /\ InitRun

Next ==
    \/ ConstructMain
    \/ ProcessCall
    \/ CoerceFace
    \/ LevelBegin
    \/ LevelEmit
    \/ ProcessReturn
    \/ LtasgValidate
    \/ LtasgAlloc
    \/ LtasgUpload
    \/ LtasgPass
    \/ LtasgRetrieve
    \/ ClientSetup
    \/ DirectCall

Spec == Init /\ [][Next]_vars


-----------------------------------------------------------------------------
(* Properties of the plan builder (checked under SpecPlan) *)

Sigmas == blur.options.mipLevelSigmas

Constructed == blur.status # "none"

\* Some sigma^2 is smaller than the one before it.
SigmaSquaresDecrease ==
    \E l \in 2..Len(Sigmas) : Sigmas[l] * Sigmas[l] < Sigmas[l - 1] * Sigmas[l - 1]

\* C3: the constructor throws the monotonicity error exactly when some
\* mipLevelSigmas[l]^2 is smaller than mipLevelSigmas[l-1]^2; in particular it
\* does not throw for a non-decreasing sequence of non-negative sigmas, equal
\* consecutive values included.
C3_MonotonicityError ==
    Constructed =>
        /\ (blur.status = "threw" /\ blur.err = ErrMonotonic) <=> SigmaSquaresDecrease
        /\ ( (\A l \in 1..Len(Sigmas) : Sigmas[l] >= 0 /\ (l > 1 => Sigmas[l] >= Sigmas[l - 1]))
             => blur.status = "ok" )

\* The constructor has thrown on the sequence [0.1, 0.05].
C3_Witness ==
    /\ blur.status = "threw"
    /\ Sigmas = <<2, 1>>

DefaultOptions(n, sigmas) ==
    [ imageSize |-> n, mipLevelSigmas |-> sigmas, minNumPasses |-> 0,
      kernelWidth |-> 0, kernelResolution |-> 0 ]

\* imageSize = 8, mipLevelSigmas = [0.4], every other option left to its default
IsScenarioS6 == blur.options = DefaultOptions(8, <<8>>)

\* r * s * sqrt(3) >= Nl for the level a plan entry was built for
RadiusReachesFace(e) ==
    LET r == Len(e.kernel) \div 2
    IN  3 * r * r * e.kernelScale.num * e.kernelScale.num
            >= e.levelSize * e.levelSize * e.kernelScale.den * e.kernelScale.den

\* The plan entries the constructor computes for the options, whether or not it
\* goes on to throw at a later level.
ComputedPlan == PlanFrom(blur.options, 1, 0, <<>>).plan

SumsToOne(kernel) ==
    /\ \A i \in 1..Len(kernel) : ~IsNaN(kernel[i])
    /\ 2 * SumSeq(kernel) >= 2 * Q - Len(kernel)
    /\ 2 * SumSeq(kernel) <= 2 * Q + Len(kernel)

\* C10 as stated: every kernel of the plan has odd length 2r+1, r >= 0, and
\* weights that sum to 1; at a level whose sigma equals the previous one
\* (residue variance 0, radius 0) the kernel is the single weight 1.
C10_AsStated ==
    blur.status = "ok" =>
        \A l \in 1..Len(blur.plan) :
            LET e == blur.plan[l]
            IN  /\ Len(e.kernel) % 2 = 1
                /\ SumsToOne(e.kernel)
                /\ e.residueVar = 0 => e.kernel = <<Q>>

-----------------------------------------------------------------------------
(* Properties of process and ltasg (checked under Spec) *)

IsProcessCall == call.kind = "process"

IsDirectCall == call.kind = "direct"

RECURSIVE LastIndex(_, _, _)
\* The index of the last entry of l, at or before n, whose op is op (0: none)
LastIndex(l, op, n) ==
    IF n = 0 THEN 0
    ELSE IF l[n].op = op THEN n
    ELSE LastIndex(l, op, n - 1)

Ops(l, op) == SelectSeq(l, LAMBDA e : e.op = op)

HasOp(l, op) == \E n \in 1..Len(l) : l[n].op = op

\* The part of the log made by the ltasg call that began last and passed its
\* checks (empty when there is none)
LastLtasgLog ==
    LET n == LastIndex(log, "ltasg", Len(log))
    IN  IF n = 0 THEN <<>> ELSE SubSeq(log, n, Len(log))

\* ceil(n / 2^l) for 0 <= n <= 2^30
CeilShift(n, l) == IF l > 30 THEN Min(n, 1) ELSE CeilDiv(n, 2 ^ l)

\* C1: a successful process call returns one level per entry of
\* mipLevelSigmas, pushed in order from level 0; every level holds six faces;
\* a face of level 0 is as long as the input face, and a face of a level
\* l >= 1 holds exactly 4 * Nl * Nl elements, Nl = ceil(imageSize / 2^l).
C1_ReturnShape ==
    (IsProcessCall /\ outcome.kind = "returned") =>
        /\ Len(outcome.levels) = Len(blur.options.mipLevelSigmas)
        /\ LET pushes == Ops(log, "push")
           IN  /\ Len(pushes) = Len(outcome.levels)
               /\ \A l \in 1..Len(pushes) : pushes[l].a = l - 1
        /\ \A l \in 1..Len(outcome.levels) :
              /\ Len(outcome.levels[l]) = 6
              /\ \A f \in 1..6 :
                    Len(heap[outcome.levels[l][f]].data) =
                        IF l = 1 THEN Len(call.input[f].data)
                        ELSE 4 * CeilShift(blur.size, l - 1) * CeilShift(blur.size, l - 1)

\* A process call on a 2x2 cube map has returned two levels.
C1_Witness ==
    /\ IsProcessCall
    /\ outcome.kind = "returned"
    /\ blur.size = 2
    /\ Len(outcome.levels) = 2

\* C2: in an ltasg call that passed its checks, the invocations of
\* emg_ltasg_single have the phases 0, 1, 2, 0, 1, 2, ...; each reads the
\* buffer the one before it wrote, and the first reads the buffer input face
\* 0 was uploaded to; there are never more than 3 * numPasses of them, and
\* exactly 3 * numPasses once the call has freed its buffer.
C2_PassSequence ==
    LET l == LastLtasgLog
        singles == Ops(l, "single")
        uploads == Ops(l, "upload")
    IN  l # <<>> =>
            /\ \A j \in 1..Len(singles) :
                  /\ singles[j].a = (j - 1) % 3
                  /\ j > 1 => singles[j].c = singles[j - 1].b
                  /\ j = 1 => (uploads # <<>> /\ singles[j].c = uploads[1].b)
            /\ Len(singles) <= 3 * l[1].b
            /\ HasOp(l, "free") => Len(singles) = 3 * l[1].b

\* An ltasg call of two rounds has run to its end.
C2_Witness ==
    /\ LastLtasgLog # <<>>
    /\ LastLtasgLog[1].b = 2
    /\ HasOp(LastLtasgLog, "free")

\* C5: a process call with fewer than six faces ends at once with the arity
\* error: nothing is coerced, no array is allocated, no buffer is allocated
\* and no pass is run.  A direct ltasg call with fewer than six inFaces or
\* outFaces likewise does nothing but throw the arity error.
C5_ArityFailsFirst ==
    /\ (IsProcessCall /\ call.nFaces < 6) =>
          /\ pc = "idle"
          /\ outcome = Threw(ErrArity)
          /\ log = <<>>
          /\ heap = call.input
          /\ allocs = {}
    /\ (IsDirectCall /\ (call.nIn < 6 \/ call.nOut < 6)) =>
          /\ pc \in {"lt_validate", "idle"}
          /\ log = <<>>
          /\ allocs = {}
          /\ pc = "idle" =>
                outcome = Threw(IF call.nIn < 6 THEN ErrInFacesArity ELSE ErrOutFacesArity)

\* A process call with five faces has thrown.
C5_Witness ==
    /\ IsProcessCall
    /\ call.nFaces = 5
    /\ outcome.kind = "threw"

\* Some of the first six input faces is shorter than 4 * N * N
SomeInputFaceShort ==
    \E f \in 1..6 : Len(call.input[f].data) < 4 * blur.size * blur.size

\* Some of the six inFaces or outFaces of the direct call is shorter than
\* 4 * size * size
SomeDirectFaceShort ==
    \E f \in 1..6 :
        \/ Len(heap[client[call.inSet][f]].data) < 4 * call.size * call.size
        \/ Len(heap[client[call.outSet][f]].data) < 4 * call.size * call.size

\* C6: a process call in which one of the first six faces is shorter than
\* 4 * N * N never leaves the coercion loop: it throws there (the too-small
\* error, unless a type or format error comes first), no buffer is allocated,
\* no pass is run and no level is pushed or returned.  A direct ltasg call
\* with a short face among its six inFaces or outFaces throws in its checks.
C6_ShortFaceRejected ==
    /\ (IsProcessCall /\ call.nFaces >= 6 /\ SomeInputFaceShort) =>
          /\ pc \in {"p_coerce", "idle"}
          /\ ~HasOp(log, "single") /\ ~HasOp(log, "malloc") /\ ~HasOp(log, "push")
          /\ pc = "idle" =>
                /\ outcome.kind = "threw"
                /\ outcome.err \in {ErrTooSmall, ErrInvalidType, ErrInvalidFormat}
                /\ outcome.levels = <<>>
    /\ (IsDirectCall /\ call.nIn = 6 /\ call.nOut = 6 /\ SomeDirectFaceShort) =>
          /\ pc \in {"lt_validate", "idle"}
          /\ log = <<>>
          /\ pc = "idle" =>
                (outcome.kind = "threw" /\ outcome.err \in {ErrInFaceShort, ErrOutFaceShort})

\* A process call whose sixth face is short has thrown, after coercing it.
C6_Witness ==
    /\ IsProcessCall
    /\ call.nFaces = 6
    /\ Len(call.input[6].data) < 4 * blur.size * blur.size
    /\ outcome = Threw(ErrTooSmall)
    /\ Len(Ops(log, "coerce")) = 6

\* C7: the arrays passed to process hold, at every point of the call and
\* after it, what they held when it was called.
C7_InputUntouched ==
    IsProcessCall => SubSeq(heap, 1, call.nFaces) = call.input

\* A process call on float input has returned float levels, and level 0
\* differs from the input.
C7_Witness ==
    /\ IsProcessCall
    /\ outcome.kind = "returned"
    /\ call.inFormat = RgbaF32PremulAlpha
    /\ call.outFormat = RgbaF32PremulAlpha
    /\ Len(outcome.levels) >= 1
    /\ \E f \in 1..6 : heap[outcome.levels[1][f]].data # heap[f].data

\* The contents of a face set of the direct client
Contents(set) == [f \in 1..6 |-> heap[client[set][f]].data]

\* C8: every ltasg call uploads all six input faces before it writes any
\* output face; and a face set produced in place equals a face set that went
\* through the same rounds and was last produced with distinct outFaces.
C8_InPlaceSameOutput ==
    /\ LET l == LastLtasgLog
       IN  \A n \in 1..Len(l) :
              l[n].op = "retrieve" =>
                  \A i \in 0..5 : \E m \in 1..(n - 1) : l[m].op = "upload" /\ l[m].a = i
    /\ (client.set /\ pc = "idle" /\ client.rounds["X"] = client.rounds["Y"]
          /\ client.inPlace["X"] /\ ~client.inPlace["Y"])
       => Contents("X") = Contents("Y")

\* X was blurred in place and Y through distinct outFaces, by as many rounds.
C8_Witness ==
    /\ client.set
    /\ pc = "idle"
    /\ client.rounds["X"] = client.rounds["Y"]
    /\ client.rounds["X"] > 0
    /\ client.inPlace["X"]
    /\ ~client.inPlace["Y"]
    /\ Contents("X") # [f \in 1..6 |-> InputArray("f32", f, Elements(client.size)).data]

\* C9: two face sets that started equal and went through the same number of
\* rounds of the same kernel are equal, however the rounds were split into
\* calls: one call of k rounds gives what k calls of one round give.
C9_PassesCompose ==
    (client.set /\ pc = "idle" /\ client.rounds["X"] = client.rounds["Y"])
        => Contents("X") = Contents("Y")

\* X went through two rounds in one call, Y through two calls of one round.
C9_Witness ==
    /\ client.set
    /\ pc = "idle"
    /\ client.rounds["X"] = 2
    /\ client.calls["X"] = 1
    /\ client.rounds["Y"] = 2
    /\ client.calls["Y"] = 2

-----------------------------------------------------------------------------
(* More properties of the plan builder (checked under SpecPlan) *)

\* const minNumPasses = (options.minNumPasses || 2) | 0, as the options give it
OptMinNumPasses == OrDefault(blur.options.minNumPasses, 2)

\* const kernelWidth = options.kernelWidth || 3, as the options give it
OptKernelWidth == OrDefault(blur.options.kernelWidth, 3)

\* C11: at every level of a plan, numPasses is the larger of
\* ceil(residueVar / (0.5 / kernelWidth)^2) and minNumPasses, hence at least
\* minNumPasses, where an omitted minNumPasses counts as 2; a plan built with
\* minNumPasses >= 1 has numPasses >= 1 at every level.
C11_NumPassesAtLeastMin ==
    blur.status = "ok" =>
        \A l \in 1..Len(blur.plan) :
            LET e == blur.plan[l]
                \* residueVar / sigmaLimit^2 = rv * 4 * kernelWidth^2 / SigmaDen^2
                n == e.residueVar * 4 * OptKernelWidth * OptKernelWidth
                d == SigmaDen * SigmaDen
            IN  /\ e.numPasses >= OptMinNumPasses
                /\ e.numPasses >= blur.options.minNumPasses
                /\ blur.options.minNumPasses = 0 => e.numPasses >= 2
                /\ blur.options.minNumPasses >= 1 => e.numPasses >= 1
                \* numPasses = max(ceil(n / d), minNumPasses)
                /\ \/ e.numPasses = OptMinNumPasses /\ n <= e.numPasses * d
                   \/ /\ e.numPasses > OptMinNumPasses
                      /\ n <= e.numPasses * d
                      /\ n > (e.numPasses - 1) * d

\* A plan built with minNumPasses omitted has a level held at the minimum of
\* two passes and a level that needs more.
C11_Witness ==
    /\ blur.status = "ok"
    /\ blur.options.minNumPasses = 0
    /\ Len(blur.plan) = 2
    /\ blur.plan[1].numPasses = 2
    /\ blur.plan[2].numPasses > 2

-----------------------------------------------------------------------------
(* The face sizes of the level loop on their own: LtasgBlur.process walking
   down the levels of a plan of any length, without the images *)

SizeMaxLevel == 33

SizeImageSizes == {1, 2, 3, 5, 8, 1000, 32767, 32768}

\* process has reached the level loop for a cube map of some size
InitSizes ==
    /\ \E n \in SizeImageSizes :
          /\ blur = [NoBlur EXCEPT !.size = n]
          /\ proc = [NoProc EXCEPT !.currentSize = n]
    /\ pc = "p_level"
    /\ loader = NoLoader
    /\ heap = <<>>
    /\ call = NoCall
    /\ lt = NoLt
    /\ mem = <<>>
    /\ memBytes = InitialMemBytes
    /\ allocs = {}
    /\ log = <<>>
    /\ outcome = NoOutcome
    /\ client = NoClient

\* One more turn of the level loop: the size of the next level, and the
\* resample request made for it
SizeStep ==
    /\ pc = "p_level"
    /\ proc.i < SizeMaxLevel
    /\ LET newSize == HalfSize(proc.currentSize)
       IN  /\ proc' = [proc EXCEPT !.i = proc.i + 1, !.currentSize = newSize]
           /\ log' = Append(log, Ev("resample", proc.i + 1, proc.currentSize, newSize))
    /\ UNCHANGED <<loader, blur, pc, heap, call, lt, mem, memBytes, allocs, outcome, client>>

NextSizes == SizeStep

SpecSizes == InitSizes /\ [][NextSizes]_vars

\* C12 as stated: at every level l the size process works at equals the size
\* the constructor computes for the level, (imageSize + 2^l - 1) >> l, and both
\* equal ceil(imageSize / 2^l), whatever the number of levels.
C12_AsStated ==
    pc = "p_level" =>
        /\ proc.currentSize = LevelSize(blur.size, proc.i)
        /\ proc.currentSize = CeilShift(blur.size, proc.i)

\* The resample requests made so far: [a: level, b: source size, c: new size]
ResampleRequests == Ops(log, "resample")

\* C13 as stated: every resample request between two levels is an exact 2x
\* reduction along both axes, so resampleRgbF32 always takes its box path.
C13_AsStated ==
    \A n \in 1..Len(ResampleRequests) :
        LET e == ResampleRequests[n]
        IN  /\ e.b = 2 * e.c
            /\ TakesBoxPath(e.b, e.b, e.c, e.c)

\* C13 amended: every resample request between two levels asks for the
\* square of side ceil(source / 2), never a magnification; it is an exact 2x
\* reduction, and resampleRgbF32 takes its box path, exactly when the source
\* side is even; for an odd source side (1 -> 1 included) resampleRgbF32
\* takes its linear-interpolation path.
C13_HalvesRoundingUp ==
    \A n \in 1..Len(ResampleRequests) :
        LET e == ResampleRequests[n]
        IN  /\ e.c = CeilDiv(e.b, 2)
            /\ e.c <= e.b
            /\ TakesBoxPath(e.b, e.b, e.c, e.c) <=> e.b % 2 = 0

\* The level loop has asked for 5 -> 3 and 3 -> 2 (odd sources) and for
\* 2 -> 1 (an exact 2x reduction).
C13_Witness ==
    /\ pc = "p_level"
    /\ blur.size = 5
    /\ \E n \in 1..Len(ResampleRequests) :
          ResampleRequests[n].b = 3 /\ ResampleRequests[n].c = 2
    /\ \E n \in 1..Len(ResampleRequests) :
          ResampleRequests[n].b = 2 /\ ResampleRequests[n].c = 1

-----------------------------------------------------------------------------
(* Properties of the constructor's checks (checked under SpecPlan) *)

\* The size is larger than the 32768 CoreInstance.ltasg accepts
ImageSizeTooLarge == blur.options.imageSize > 32768

-----------------------------------------------------------------------------
(* More properties of process and ltasg (checked under Spec) *)

\* The process call in progress or last made has run a pass
ProcessRanPass == IsProcessCall /\ HasOp(log, "single")

\* C15 as stated: a process call that throws (too few faces, a short face, an
\* invalid input format or type, an invalid output format) has run no
\* emg_ltasg_single pass; a call that has run a pass ends by returning every
\* level.
C15_AsStated ==
    (IsProcessCall /\ pc = "idle") =>
        /\ outcome.kind = "threw" => ~HasOp(log, "single")
        /\ ProcessRanPass =>
              (outcome.kind = "returned" /\ Len(outcome.levels) = Len(blur.plan))

\* The emg_malloc and emg_free calls of the client call, in order, and the
\* ltasg calls that passed their checks
Mallocs == Ops(log, "malloc")
Frees == Ops(log, "free")
LtasgsPassed == Ops(log, "ltasg")

-----------------------------------------------------------------------------
(* The module loader on its own: callers of getGlobalCoreModule and of
   CoreInstance.create, interleaved at their awaits *)

MaxCompiles == 3

MaxInstances == 2

\* A caller may begin a call when it is not in the middle of one
CanCall(c) == loader.callers[c].at \in {"idle", "done", "failed"}

\* getGlobalCoreModule() called directly: it returns at once
CallGetGlobalCoreModule(c) ==
    /\ CanCall(c)
    /\ Len(loader.promises) < MaxCompiles
    /\ LET ld == getGlobalCoreModule(loader)
       IN  loader' = [ld EXCEPT !.callers[c] =
                         [kind |-> "get", at |-> "done", got |-> ld.globalModule, module |-> 0,
                          instance |-> 0]]
    /\ UNCHANGED <<blur, pc, heap, call, proc, lt, mem, memBytes, allocs, log, outcome, client>>

\* CoreInstance.create(options) up to its first await:
\* const module = options.module || await getGlobalCoreModule()
\* (kind "create..." when called by the client, "blur..." when called by
\* LtasgBlur.create)
BeginCreate(c, withModule, kind) ==
    /\ CanCall(c)
    /\ Len(loader.promises) < MaxCompiles
    /\ IF withModule
       THEN loader' = [loader EXCEPT !.callers[c] =
                         [kind |-> kind \o "WithModule", at |-> "await_instance",
                          got |-> 0, module |-> OwnModule, instance |-> 0]]
       ELSE LET ld == getGlobalCoreModule(loader)
            IN  loader' = [ld EXCEPT !.callers[c] =
                              [kind |-> kind, at |-> "await_module",
                               got |-> ld.globalModule, module |-> 0, instance |-> 0]]
    /\ UNCHANGED <<blur, pc, heap, call, proc, lt, mem, memBytes, allocs, log, outcome, client>>

CallCreate(c, withModule) == BeginCreate(c, withModule, "create")

\* A compilation ends: its promise is fulfilled or rejected
CompileSettles ==
    /\ \E p \in 1..Len(loader.promises) :
          /\ loader.promises[p] = "pending"
          /\ \E r \in {"fulfilled", "rejected"} :
                loader' = [loader EXCEPT !.promises[p] = r]
    /\ UNCHANGED <<blur, pc, heap, call, proc, lt, mem, memBytes, allocs, log, outcome, client>>

\* create resumes after `await getGlobalCoreModule()`: with the module, or
\* with the rejection, which ends the call
CreateResumes(c) ==
    /\ loader.callers[c].at = "await_module"
    /\ loader.promises[loader.callers[c].got] # "pending"
    /\ loader' = IF loader.promises[loader.callers[c].got] = "fulfilled"
                 THEN [loader EXCEPT !.callers[c].at = "await_instance",
                                     !.callers[c].module = loader.callers[c].got]
                 ELSE [loader EXCEPT !.callers[c].at = "failed"]
    /\ UNCHANGED <<blur, pc, heap, call, proc, lt, mem, memBytes, allocs, log, outcome, client>>

\* The callers that are inside LtasgBlur.create
InBlurCreate(c) == loader.callers[c].kind \in {"blur", "blurWithModule"}

\* create resumes after `await WebAssembly.instantiate(module)` with a new
\* instance and returns new CoreInstance({module, instance}); a create called
\* by LtasgBlur.create is awaited there
CreateFinishes(c) ==
    /\ loader.callers[c].at = "await_instance"
    /\ Len(loader.inits) < MaxInstances
    /\ LET k == NewInstance(loader.inits)
       IN  loader' = [loader EXCEPT
                         !.inits = NewCoreInstance(loader.inits, k),
                         !.callers[c].instance = k,
                         !.callers[c].at = IF InBlurCreate(c) THEN "await_core" ELSE "done"]
    /\ UNCHANGED <<blur, pc, heap, call, proc, lt, mem, memBytes, allocs, log, outcome, client>>

InitModules ==
    /\ blur = NoBlur
    /\ InitRun

NextModules ==
    \/ \E c \in Callers : CallGetGlobalCoreModule(c)
    \/ \E c \in Callers : \E withModule \in BOOLEAN : CallCreate(c, withModule)
    \/ CompileSettles
    \/ \E c \in Callers : CreateResumes(c)
    \/ \E c \in Callers : CreateFinishes(c)

SpecModules == InitModules /\ [][NextModules]_vars

\* The callers whose last call asked for the global module
AskedGlobal == {c \in Callers : loader.callers[c].kind \in {"get", "create"}}

\* C17: whatever the calls of getGlobalCoreModule and of CoreInstance.create
\* without a module, and however they interleave, WebAssembly.compile is
\* started at most once, and not before the first such call; every such
\* caller received the promise held in globalModule, and every create that
\* got past its first await uses the module of that one compilation.
C17_CompiledOnce ==
    /\ Len(loader.promises) <= 1
    /\ loader.globalModule = Len(loader.promises)
    /\ AskedGlobal # {} => Len(loader.promises) = 1
    /\ \A c \in AskedGlobal : loader.callers[c].got = loader.globalModule
    /\ \A c \in Callers :
          /\ loader.callers[c].got \in {0, loader.globalModule}
          /\ loader.callers[c].module \in {0, OwnModule, loader.globalModule}
          /\ loader.callers[c].kind = "create" /\ loader.callers[c].at \in {"await_instance", "done"}
                => loader.callers[c].module = loader.globalModule

\* One caller got the promise from getGlobalCoreModule, another finished a
\* create that awaited it, and a third is still awaiting it in create.
C17_Witness ==
    /\ Len(loader.promises) = 1
    /\ \E c1, c2, c3 \in Callers :
          /\ loader.callers[c1].kind = "get"
          /\ loader.callers[c2].kind = "create" /\ loader.callers[c2].at = "done"
          /\ loader.callers[c3].kind = "create" /\ loader.callers[c3].at = "await_instance"
          /\ loader.callers[c1].got = 1 /\ loader.callers[c2].got = 1 /\ loader.callers[c3].got = 1

\* The byte ranges [a, a + n) and [b, b + m) have no byte in common
Disjoint(a, n, b, m) == a + n <= b \/ b + m <= a

\* The bytes of a six-face region for faces of the given size
RegionBytes(size) == 6 * 4 * Elements(size)

\* C18: whenever CoreInstance.ltasg is about to invoke emg_ltasg_single, and
\* at every invocation it has made, the source and the destination are the
\* two six-face regions of the live buffer, one at pBuffer and one
\* 6 * 4 * elements bytes after it: they differ, they do not overlap, neither
\* overlaps the kernel region, and all three lie inside the allocated block.
C18_RegionsDisjoint ==
    /\ pc = "lt_pass" =>
          LET n == RegionBytes(lt.size)
              k == 4 * Len(lt.kernel)
          IN  /\ n > 0
              /\ lt.pImages1 # lt.pImages2
              /\ {lt.pImages1, lt.pImages2} = {lt.pBuffer, lt.pBuffer + n}
              /\ Disjoint(lt.pImages1, n, lt.pImages2, n)
              /\ Disjoint(lt.pImages1, n, lt.pKernel, k)
              /\ Disjoint(lt.pImages2, n, lt.pKernel, k)
              /\ [ptr |-> lt.pBuffer, len |-> lt.bufferLen] \in allocs
              /\ \A p \in {lt.pImages1, lt.pImages2} :
                    p >= lt.pBuffer /\ p + n <= lt.pBuffer + lt.bufferLen
              /\ lt.pKernel >= lt.pBuffer /\ lt.pKernel + k <= lt.pBuffer + lt.bufferLen
              /\ lt.pBuffer + lt.bufferLen <= memBytes
    /\ LET l == LastLtasgLog
           singles == Ops(l, "single")
       IN  \A j \in 1..Len(singles) :
              LET n == RegionBytes(l[1].a)
                  pBuffer == Ops(l, "malloc")[1].a
              IN  /\ singles[j].b # singles[j].c
                  /\ {singles[j].b, singles[j].c} = {pBuffer, pBuffer + n}
                  /\ Disjoint(singles[j].b, n, singles[j].c, n)
                  /\ Disjoint(singles[j].b, n, pBuffer + 2 * n, 4 * l[1].c)
                  /\ Disjoint(singles[j].c, n, pBuffer + 2 * n, 4 * l[1].c)

\* An ltasg call on faces of size 2 is in its second round, after three
\* invocations.
C18_Witness ==
    /\ pc = "lt_pass"
    /\ lt.size = 2
    /\ lt.i = 1
    /\ Len(Ops(LastLtasgLog, "single")) = 3

\* The buffer an ltasg call, whose part of the log is l, holds its result in:
\* the destination of its last invocation, or the upload buffer if it made none
ResultBuffer(l) ==
    LET singles == Ops(l, "single")
    IN  IF singles = <<>> THEN Ops(l, "upload")[1].b ELSE singles[Len(singles)].b

\* C19: output face i is read from face slot i of the buffer that was the
\* destination of the last emg_ltasg_single invocation, or of the buffer the
\* input was uploaded to when numPasses = 0; all six are read, each once, and
\* after the last of the 3 * numPasses invocations.
C19_RetrievesLastDestination ==
    LET l == LastLtasgLog
        retrieves == Ops(l, "retrieve")
    IN  /\ retrieves # <<>> =>
              /\ Len(retrieves) = 6
              /\ Len(Ops(l, "single")) = 3 * l[1].b
              /\ \A i \in 1..6 :
                    /\ retrieves[i].a = i - 1
                    /\ retrieves[i].b = ResultBuffer(l) + (i - 1) * 4 * Elements(l[1].a)
        /\ \A n \in 1..Len(l) : \A m \in 1..Len(l) :
              (l[n].op = "retrieve" /\ l[m].op = "single") => m < n

\* An ltasg call of one round (three swaps) has retrieved its outputs from
\* the second region of its block.
C19_Witness ==
    LET l == LastLtasgLog
    IN  /\ l # <<>>
        /\ l[1].b = 1
        /\ Len(Ops(l, "retrieve")) = 6
        /\ Ops(l, "retrieve")[1].b = Ops(l, "malloc")[1].a + RegionBytes(l[1].a)

-----------------------------------------------------------------------------
(* The residue variances of the plan (checked under SpecPlan) *)

\* sigma_l^2 for the l-th entry (1-based) of mipLevelSigmas; sigma_0 = 0
SigmaSquared(l) == IF l = 0 THEN 0 ELSE Sigmas[l] * Sigmas[l]

\* The residue variances of the first l entries of a plan
Residues(plan, l) == [j \in 1..l |-> plan[j].residueVar]

\* C20: lastVariance is advanced to the target sigma_l^2 after each level:
\* the residue variance of every level the constructor plans is
\* sigma_l^2 - sigma_{l-1}^2 (0 before the first level), it is not negative,
\* and the residues up to a level add up to that level's sigma_l^2.
C20_ResidueIsDifference ==
    Constructed =>
        \A l \in 1..Len(ComputedPlan) :
            /\ ComputedPlan[l].residueVar = SigmaSquared(l) - SigmaSquared(l - 1)
            /\ ComputedPlan[l].residueVar >= 0
            /\ SumSeq(Residues(ComputedPlan, l)) = SigmaSquared(l)

\* A plan for the sigmas [0.1, 0.2]: the residues are 0.01 and 0.03.
C20_Witness ==
    /\ blur.status = "ok"
    /\ Sigmas = <<2, 4>>
    /\ blur.plan[1].residueVar = 4
    /\ blur.plan[2].residueVar = 12

-----------------------------------------------------------------------------
(* The order of the levels in process (checked under Spec) *)

RECURSIVE PassesOfLevels(_, _)
\* 3 * numPasses summed over the first l levels of a plan
PassesOfLevels(plan, l) ==
    IF l = 0 THEN 0 ELSE 3 * plan[l].numPasses + PassesOfLevels(plan, l - 1)

\* The arrays the last ltasg call wrote its six outputs to
LastBlurredFaces ==
    LET r == Ops(log, "retrieve")
    IN  [f \in 1..6 |-> r[Len(r) - 6 + f].c]

\* process has resampled the faces of level proc.i > 0 and is about to blur
\* them
LevelResampled ==
    /\ IsProcessCall
    /\ pc = "lt_validate"
    /\ lt.caller = "process"
    /\ proc.i > 0

\* C21: the resample request for a level l > 0 comes right after level l - 1
\* was pushed, when the 3 * numPasses invocations of each earlier level have
\* run and their buffers are freed; and the faces of level l are the
\* resampling of the float arrays the ltasg call of level l - 1 wrote its
\* outputs to, which are neither the caller's input arrays nor, when the
\* output is encoded, the arrays pushed as level l - 1.
C21_LevelAfterLevel ==
    /\ IsProcessCall =>
          \A n \in 1..Len(log) :
              log[n].op = "resample" =>
                  LET l == log[n].a
                      before == SubSeq(log, 1, n - 1)
                  IN  /\ l >= 1
                      /\ log[n - 1].op = "push" /\ log[n - 1].a = l - 1
                      /\ Len(Ops(before, "push")) = l
                      /\ Len(Ops(before, "free")) = l
                      /\ Len(Ops(before, "single")) = PassesOfLevels(blur.plan, l)
    /\ LevelResampled =>
          LET rs == Ops(log, "resample")
              from == rs[Len(rs)].b
          IN  \A f \in 1..6 :
                  LET src == LastBlurredFaces[f]
                  IN  /\ heap[proc.currentLevel[f]].data =
                            resampleRgbF32(heap[src].data, from, from,
                                           proc.currentSize, proc.currentSize)
                      /\ heap[src].kind = "f32"
                      /\ src > call.nFaces
                      /\ call.outFormat # RgbaF32PremulAlpha =>
                            \A g \in 1..6 : proc.levels[proc.i][g] # src

\* Level 1 of a 2x2 cube map has been resampled from a blurred level 0 that
\* differs from the input, the output being encoded.
C21_Witness ==
    /\ LevelResampled
    /\ blur.size = 2
    /\ proc.i = 1
    /\ call.inFormat = RgbaF32PremulAlpha
    /\ call.outFormat = Srgbx8
    /\ \E f \in 1..6 : heap[LastBlurredFaces[f]].data # call.input[f].data

\* C22: at every point of every process call, and after it, whether it
\* returned or threw, the LtasgBlur holds what its constructor left: the same
\* size and, for every level, the same kernel, kernelScale and numPasses.
C22_PlanReadOnly ==
    (IsProcessCall /\ blur.status # "none") =>
        /\ blur = NewLtasgBlur(blur.options)
        /\ blur.size = blur.options.imageSize
        /\ Len(blur.plan) = Len(blur.options.mipLevelSigmas)

\* A process call has returned the two levels of a two-level plan.
C22_Witness ==
    /\ IsProcessCall
    /\ outcome.kind = "returned"
    /\ Len(outcome.levels) = 2
    /\ Len(blur.plan) = 2
    /\ blur.plan[2] = NewLtasgBlur(blur.options).plan[2]

-----------------------------------------------------------------------------
(* The kernel sizes of the plan against the sizes process works at (checked
   under SpecPlan) *)

\* C23 as stated: in every plan (kernelWidth and kernelResolution positive,
\* imageSize >= 1), the kernel of every level l passes the check
\* size > r * kernelScale * 1.8 of CoreInstance.ltasg at the size
\* ceil(imageSize / 2^l) process works at, so that check never fires during
\* process.
C23_AsStated ==
    (blur.status = "ok" /\ blur.options.imageSize >= 1) =>
        \A l \in 1..Len(blur.plan) :
            ~KernelTooLarge(CeilShift(blur.size, l - 1),
                            Len(blur.plan[l].kernel) \div 2,
                            blur.plan[l].kernelScale)

-----------------------------------------------------------------------------
(* The writes of CoreInstance.ltasg into the memory (checked under Spec) *)

\* The byte range [a, a + n) lies inside [b, b + m)
Inside(a, n, b, m) == a >= b /\ a + n <= b + m

\* C24 as stated: in every ltasg call that passed the checks, every write
\* into the memory (the six uploads, the kernel, the destination of every
\* emg_ltasg_single) lies inside the allocated block
\* [pBuffer, pBuffer + bufferLen), and the upload of face i lies inside the
\* slot of face i, the 4 * elements bytes from pBuffer + i * 4 * elements on.
C24_AsStated ==
    LET l == LastLtasgLog
    IN  HasOp(l, "malloc") =>
            LET pBuffer   == Ops(l, "malloc")[1].a
                bufferLen == Ops(l, "malloc")[1].b
                slot      == 4 * Elements(l[1].a)
            IN  \A n \in 1..Len(l) :
                   /\ l[n].op = "upload" =>
                         /\ Inside(l[n].b, l[n].c, pBuffer, bufferLen)
                         /\ Inside(l[n].b, l[n].c, pBuffer + l[n].a * slot, slot)
                   /\ l[n].op = "kernel" => Inside(l[n].b, l[n].c, pBuffer, bufferLen)
                   /\ l[n].op = "single" => Inside(l[n].b, 6 * slot, pBuffer, bufferLen)

\* C24, the block alone: no upload ends past the allocated block.
C24_UploadsInsideBlock ==
    LET l == LastLtasgLog
    IN  HasOp(l, "malloc") =>
            \A n \in 1..Len(l) :
                l[n].op = "upload" =>
                    l[n].b + l[n].c <= Ops(l, "malloc")[1].a + Ops(l, "malloc")[1].b

-----------------------------------------------------------------------------
(* The allocation step of CoreInstance.ltasg on its own: emg_malloc is not
   part of the TypeScript sources, so the block it returns may end inside the
   memory (the allocator grew it) or beyond it (the growth is left to the
   caller, which the code prepares for) *)

GrowPages == 1..4

GrowBases == {1024, PageBytes + 1024, 3 * PageBytes + 1024}

GrowSizes == {1, 8, 32, 64}

GrowKernels == {<<Q>>, <<Q \div 4, Q \div 2, Q \div 4>>}

\* ltasg has passed its checks on faces of some size, in a memory of some pages
InitGrow ==
    /\ \E n \in GrowSizes, k \in GrowKernels :
          lt = LtasgFrame("direct", <<>>, <<>>, n, RgbaF32PremulAlpha, k,
                          [num |-> 1, den |-> 2], 1)
    /\ \E pages \in GrowPages : memBytes = pages * PageBytes
    /\ pc = "lt_alloc"
    /\ blur = NoBlur
    /\ loader = NoLoader
    /\ heap = <<>>
    /\ call = NoCall
    /\ proc = NoProc
    /\ mem = <<>>
    /\ allocs = {}
    /\ log = <<>>
    /\ outcome = NoOutcome
    /\ client = NoClient

\* emg_malloc returns a block and leaves the memory as it was or grown to
\* hold the block; then the code's own growth and the pointers
GrowAlloc ==
    /\ pc = "lt_alloc"
    /\ \E pBuffer \in GrowBases :
          \E grown \in {memBytes, Max(memBytes, PageCeil(pBuffer + BufferLen(lt)))} :
              AllocStep(pBuffer, grown)

NextGrow == GrowAlloc

SpecGrow == InitGrow /\ [][NextGrow]_vars

\* C25 as stated: when the block emg_malloc returned ends beyond the memory
\* as emg_malloc left it, memory.grow is called, and before the upload the
\* memory is at least pBuffer + bufferLen bytes long.
C25_AsStated ==
    (pc = "lt_upload" /\ lt.pBuffer + lt.bufferLen > Mallocs[Len(Mallocs)].c) =>
        /\ HasOp(log, "grow")
        /\ memBytes >= lt.pBuffer + lt.bufferLen

-----------------------------------------------------------------------------
(* The constructors and the WebAssembly instances: CoreInstance.create,
   new CoreInstance, LtasgBlur.create and new LtasgBlur, interleaved at their
   awaits *)

MaxInits == 2

\* The options of the LtasgBlur objects built here: a plan of one level, and
\* a decreasing sequence, which the constructor rejects
CoresOptions ==
    { [ imageSize |-> 1, mipLevelSigmas |-> s, minNumPasses |-> 0,
        kernelWidth |-> 0, kernelResolution |-> 0 ] : s \in {<<2>>, <<4, 2>>} }

\* The instances a client can name in options.instance or options.core
KnownInstances == { k \in 1..Len(loader.inits) : loader.inits[k] < MaxInits }

\* new CoreInstance({module, instance}) by the client, on an instance in use
CallNewCoreInstance(k) ==
    /\ k \in KnownInstances
    /\ loader' = [loader EXCEPT !.inits = NewCoreInstance(@, k)]
    /\ UNCHANGED <<blur, pc, heap, call, proc, lt, mem, memBytes, allocs, log, outcome, client>>

\* new LtasgBlur({..., core: {module, instance}}) by the client, on an
\* instance in use: the core is constructed first, then the plan
CallNewLtasgBlur(k, o) ==
    /\ k \in KnownInstances
    /\ loader' = [loader EXCEPT !.inits = NewCoreInstance(@, k)]
    /\ blur' = NewLtasgBlur(o)
    /\ UNCHANGED <<pc, heap, call, proc, lt, mem, memBytes, allocs, log, outcome, client>>

\* LtasgBlur.create(options) up to its await:
\* const core = await CoreInstance.create(options.core)
CallBlurCreate(c, withModule) == BeginCreate(c, withModule, "blur")

\* LtasgBlur.create resumes with the CoreInstance and returns
\* new LtasgBlur({...options, core}), whose constructor makes a CoreInstance
\* of options.core, the instance of that core
BlurCreateResumes(c, o) ==
    /\ loader.callers[c].at = "await_core"
    /\ loader.callers[c].instance \in KnownInstances
    /\ loader' = [loader EXCEPT
                     !.inits = NewCoreInstance(@, loader.callers[c].instance),
                     !.callers[c].at = "done"]
    /\ blur' = NewLtasgBlur(o)
    /\ UNCHANGED <<pc, heap, call, proc, lt, mem, memBytes, allocs, log, outcome, client>>

NextCores ==
    \/ \E c \in Callers : \E withModule \in BOOLEAN : CallCreate(c, withModule)
    \/ \E c \in Callers : \E withModule \in BOOLEAN : CallBlurCreate(c, withModule)
    \/ CompileSettles
    \/ \E c \in Callers : CreateResumes(c)
    \/ \E c \in Callers : CreateFinishes(c)
    \/ \E c \in Callers : \E o \in CoresOptions : BlurCreateResumes(c, o)
    \/ \E k \in 1..MaxInstances : CallNewCoreInstance(k)
    \/ \E k \in 1..MaxInstances : \E o \in CoresOptions : CallNewLtasgBlur(k, o)

SpecCores == InitModules /\ [][NextCores]_vars

\* C26 as stated: whatever the calls of CoreInstance.create, new CoreInstance,
\* LtasgBlur.create and new LtasgBlur, no WebAssembly instance has had
\* emg_init called on it more than once.
C26_AsStated == \A k \in 1..Len(loader.inits) : loader.inits[k] <= 1

\* C26, LtasgBlur.create alone: an instance made by a finished
\* LtasgBlur.create has had emg_init called on it once.
C26_BlurCreateInitsOnce ==
    \A c \in Callers :
        (InBlurCreate(c) /\ loader.callers[c].at = "done") =>
            loader.inits[loader.callers[c].instance] <= 1

-----------------------------------------------------------------------------
(* The arrays of the levels process returns (checked under Spec) *)

\* The levels pushed so far, or returned
PushedLevels == IF outcome.kind = "returned" THEN outcome.levels ELSE proc.levels

\* The arrays of the levels in ls
ArraysOf(ls) == UNION { {ls[l][f] : f \in 1..Len(ls[l])} : l \in 1..Len(ls) }

\* No array belongs to two of the pushed levels, to the caller's input, or
\* to the faces ltasg is working on for a later level
PushedLevelsApart ==
    IsProcessCall =>
        /\ \A l1, l2 \in 1..Len(PushedLevels) :
              l1 # l2 => ArraysOf(<<PushedLevels[l1]>>) \cap ArraysOf(<<PushedLevels[l2]>>) = {}
        /\ ArraysOf(PushedLevels) \cap 1..call.nFaces = {}
        /\ pc \in {"lt_validate", "lt_alloc", "lt_upload", "lt_pass", "lt_retrieve"} =>
              ArraysOf(PushedLevels) \cap ArraysOf(<<lt.inFaces, lt.outFaces>>) = {}

\* No step of process changes an array of a level it has pushed
PushedLevelsKept ==
    \A a \in ArraysOf(proc.levels) : heap'[a] = heap[a]

\* C27: once process has pushed level l, no later step of the call writes a
\* face array of level l; the pushed and returned levels have no array in
\* common with each other, with the caller's input, or with the faces a later
\* level is worked on, also when outFormat is RgbaF32PremulAlpha and the
\* working faces themselves are pushed.
C27_LevelsKept == [](PushedLevelsApart) /\ [][PushedLevelsKept]_vars

\* A process call has returned two levels of working faces (outFormat
\* RgbaF32PremulAlpha), and level 1 was blurred after level 0 was pushed.
C27_Witness ==
    /\ IsProcessCall
    /\ outcome.kind = "returned"
    /\ call.outFormat = RgbaF32PremulAlpha
    /\ Len(outcome.levels) = 2
    /\ heap[outcome.levels[1][1]].kind = "f32"
    /\ LastIndex(log, "push", Len(log) - 1) < LastIndex(log, "retrieve", Len(log))

====
